---- MODULE Spec2Model ----
(***************************************************************************)
(* Model of the DenizenScript editor extension: the syntax highlighter     *)
(* (decorateLine and the tokenizers it calls), the incremental highlight   *)
(* cache (HighlightCache, decorateFullFile and the editor event handlers)  *)
(* and the folding provider of src/extension/src/extension.ts.             *)
(*                                                                         *)
(* Text is modelled by TLA+ strings; columns and line numbers are 0-based  *)
(* as in the source, so charAt(s, i) is the character at JavaScript index  *)
(* i.  A decoration is a record [type, line, s, e]: the category, the line *)
(* and the half-open column range [s, e).                                  *)
(***************************************************************************)
EXTENDS Integers, Sequences, FiniteSets, TLC

----------------------------------------------------------------------------
(* JavaScript string primitives used by the source.                        *)

Min(a, b) == IF a < b THEN a ELSE b

Max(a, b) == IF a > b THEN a ELSE b

Clamp(n, len) == Max(0, Min(n, len))

charAt(s, i) == IF i >= 0 /\ i < Len(s) THEN SubSeq(s, i + 1, i + 1) ELSE ""

substring(s, a, b) ==
    LET ca == Clamp(a, Len(s))
        cb == Clamp(b, Len(s))
    IN  SubSeq(s, Min(ca, cb) + 1, Max(ca, cb))

substringFrom(s, a) == substring(s, a, Len(s))

startsWith(s, p) == Len(p) <= Len(s) /\ SubSeq(s, 1, Len(p)) = p

endsWith(s, p) == Len(p) <= Len(s) /\ SubSeq(s, Len(s) - Len(p) + 1, Len(s)) = p

RECURSIVE indexOf(_, _, _)
indexOf(s, p, from) ==
    LET f == Max(from, 0)
    IN  IF f + Len(p) > Len(s) THEN -1
        ELSE IF SubSeq(s, f + 1, f + Len(p)) = p THEN f
        ELSE indexOf(s, p, f + 1)

includes(s, p) == indexOf(s, p, 0) # -1

includesFrom(s, p, from) == indexOf(s, p, from) # -1

IsWhitespace(c) == c \in {" ", "\t", "\r", "\n"}

RECURSIVE trimStart(_)
trimStart(s) ==
    IF Len(s) > 0 /\ IsWhitespace(charAt(s, 0)) THEN trimStart(Tail(s)) ELSE s

RECURSIVE trimEnd(_)
trimEnd(s) ==
    IF Len(s) > 0 /\ IsWhitespace(charAt(s, Len(s) - 1))
    THEN trimEnd(SubSeq(s, 1, Len(s) - 1))
    ELSE s

trim(s) == trimStart(trimEnd(s))

UpperChars == "ABCDEFGHIJKLMNOPQRSTUVWXYZ"

LowerChars == "abcdefghijklmnopqrstuvwxyz"

lowerChar(c) ==
    LET k == indexOf(UpperChars, c, 0)
    IN  IF Len(c) = 1 /\ k # -1 THEN charAt(LowerChars, k) ELSE c

RECURSIVE toLowerCase(_)
toLowerCase(s) ==
    IF Len(s) = 0 THEN s ELSE lowerChar(charAt(s, 0)) \o toLowerCase(Tail(s))

(* text.split(sep) for a one-character separator: a sequence of strings.   *)
RECURSIVE splitFrom(_, _, _)
splitFrom(s, sep, from) ==
    LET k == indexOf(s, sep, from)
    IN  IF k = -1 THEN << substringFrom(s, from) >>
        ELSE << substring(s, from, k) >> \o splitFrom(s, sep, k + 1)

split(s, sep) == splitFrom(s, sep, 0)

----------------------------------------------------------------------------
(* Decorations.  addDecor appends a range to the list of its category; the *)
(* tokenizers below return the ranges in the order the source adds them.   *)

Dec(type, lineNumber, startChar, endChar) ==
    [type |-> type, line |-> lineNumber, s |-> startChar, e |-> endChar]

Null == "<null>"

colorTypes ==
    << "comment_header", "comment_normal", "comment_todo", "comment_code",
       "key", "key_inline", "command", "quote_double", "quote_single", "def_name",
       "event_line", "event_switch", "event_switch_value",
       "tag", "tag_dot", "tag_param", "tag_param_bracket",
       "bad_space", "space", "normal",
       "colons", "if_operators", "data_actions" >>

SeqToSet(q) == { q[k] : k \in 1..Len(q) }

InSeq(x, q) == \E k \in 1..Len(q) : q[k] = x

ifOperators ==
    { "<", ">", "<=", ">=", "==", "!=", "||", "&&", "(", ")", "or", "not", "and",
      "in", "contains", "!in", "!contains", "matches", "!matches" }

ifCmdLabels == { "cmd:if", "cmd:else", "cmd:while", "cmd:waituntil" }

deffableCmdLabels == { "cmd:run", "cmd:runlater", "cmd:clickable", "cmd:bungeerun" }

RECURSIVE checkIfHasTagEndFrom(_, _, _, _, _, _, _)
checkIfHasTagEndFrom(arg, i, quoted, quoteMode, canQuote, params, hasFallback) ==
    IF i >= Len(arg) THEN FALSE
    ELSE LET c == charAt(arg, i) IN
        IF canQuote /\ (c = "\"" \/ c = "'") THEN
            IF quoted /\ c = quoteMode
            THEN checkIfHasTagEndFrom(arg, i + 1, FALSE, quoteMode, canQuote, params, hasFallback)
            ELSE IF ~quoted
            THEN checkIfHasTagEndFrom(arg, i + 1, TRUE, c, canQuote, params, hasFallback)
            ELSE checkIfHasTagEndFrom(arg, i + 1, quoted, quoteMode, canQuote, params, hasFallback)
        ELSE IF c = "[" THEN
            checkIfHasTagEndFrom(arg, i + 1, quoted, quoteMode, canQuote, params + 1, hasFallback)
        ELSE IF c = "]" /\ params > 0 THEN
            checkIfHasTagEndFrom(arg, i + 1, quoted, quoteMode, canQuote, params - 1, hasFallback)
        ELSE IF c = ">" THEN TRUE
        ELSE IF c = " " /\ ~quoted /\ canQuote /\ params = 0 /\ ~hasFallback THEN FALSE
        ELSE IF c = "|" /\ i > 0 /\ charAt(arg, i - 1) = "|" THEN
            checkIfHasTagEndFrom(arg, i + 1, quoted, quoteMode, canQuote, params, TRUE)
        ELSE checkIfHasTagEndFrom(arg, i + 1, quoted, quoteMode, canQuote, params, hasFallback)

(* Variant: any '>' in the rest of the argument counts, whatever comes before it. *)
checkIfHasTagEndAnywhere(arg, quoted, quoteMode, canQuote) == includes(arg, ">")

checkIfHasTagEnd(arg, quoted, quoteMode, canQuote) ==
    checkIfHasTagEndFrom(arg, 0, quoted, quoteMode, canQuote, 0, FALSE)

defaultTagSpecialColors ==
    [ k \in { "&0", "black", "&1", "dark_blue", "&2", "dark_green", "&3", "dark_aqua",
              "&4", "dark_red", "&5", "dark_purple", "&6", "gold", "&7", "gray",
              "&8", "dark_gray", "&9", "blue", "&a", "green", "&b", "aqua",
              "&c", "red", "&d", "light_purple", "&e", "yellow",
              "&f", "white", "&r", "reset" } |->
        CASE k \in { "&0", "black" } -> "#000000"
          [] k \in { "&1", "dark_blue" } -> "#0000AA"
          [] k \in { "&2", "dark_green" } -> "#00AA00"
          [] k \in { "&3", "dark_aqua" } -> "#00AAAA"
          [] k \in { "&4", "dark_red" } -> "#AA0000"
          [] k \in { "&5", "dark_purple" } -> "#AA00AA"
          [] k \in { "&6", "gold" } -> "#FFAA00"
          [] k \in { "&7", "gray" } -> "#AAAAAA"
          [] k \in { "&8", "dark_gray" } -> "#555555"
          [] k \in { "&9", "blue" } -> "#5555FF"
          [] k \in { "&a", "green" } -> "#55FF55"
          [] k \in { "&b", "aqua" } -> "#55FFFF"
          [] k \in { "&c", "red" } -> "#FF5555"
          [] k \in { "&d", "light_purple" } -> "#FF55FF"
          [] k \in { "&e", "yellow" } -> "#FFFF55"
          [] OTHER -> "#FFFFFF" ]

(* The denizenscript.theme_colors.text_color_map setting of the           *)
(* configuration: comma separated name=colour pairs.                       *)
text_color_map == "base=#00AAAA,plain"

(* loadAllColors: every name=colour pair of the setting becomes the       *)
(* entry &[name] of tagSpecialColors; other entries are skipped.           *)
RECURSIVE loadTextColorMap(_, _, _)
loadTextColorMap(colors, colorsSplit, i) ==
    IF i > Len(colorsSplit) THEN colors
    ELSE LET pair == split(colorsSplit[i], "=")
         IN  loadTextColorMap(
                 IF Len(pair) = 2
                 THEN (("&[" \o toLowerCase(pair[1]) \o "]") :> pair[2]) @@ colors
                 ELSE colors,
                 colorsSplit, i + 1)

(* tagSpecialColors once loadAllColors has run. *)
tagSpecialColors ==
    loadTextColorMap(defaultTagSpecialColors, split(text_color_map, ","), 1)

formatCodes ==
    [ k \in { "&l", "bold", "&o", "italic", "&m", "strikethrough", "&n", "underline" } |->
        CASE k \in { "&l", "bold" } -> "bold"
          [] k \in { "&o", "italic" } -> "italic"
          [] k \in { "&m", "strikethrough" } -> "strike"
          [] OTHER -> "underline" ]

hexRefStr == "abcdefABCDEF0123456789"

RECURSIVE isHex(_)
isHex(text) ==
    \/ Len(text) = 0
    \/ /\ includes(hexRefStr, charAt(text, 0))
       /\ isHex(Tail(text))

(* parseInt(text, 16) of a two-digit string of hexadecimal digits.        *)
HexDigit(c) ==
    LET k == indexOf("0123456789abcdef", lowerChar(c), 0) IN IF k = -1 THEN 0 ELSE k

parseHex2(text) == 16 * HexDigit(charAt(text, 0)) + HexDigit(charAt(text, 1))

(* highlightColorRef[color]: the style string colorSet recorded for a     *)
(* configured category; env.ref is the set of categories it has recorded. *)
ThemeColor(c) ==
    CASE c = "normal" -> "#D4D4D4"
      [] c = "tag" -> "#A0A0FF"
      [] c = "tag_param" -> "#A0FFFF"
      [] c = "quote_double" -> "#FFFFA0"
      [] c = "quote_single" -> "#FFE0A0"
      [] OTHER -> "#C0C0C0"

getColorData(color, env) ==
    IF startsWith(color, "#") THEN color
    ELSE IF startsWith(color, "auto:#") THEN substringFrom(color, Len("auto:"))
    ELSE IF color \in env.ref THEN ThemeColor(color)
    ELSE Null

fixDark(color, env) ==
    IF color = Null THEN Null
    ELSE IF env.dark THEN color
    ELSE LET splitter == indexOf(color, "|", 0)
             part == IF splitter = -1 THEN color ELSE substring(color, 0, splitter)
         IN  IF ~startsWith(part, "#") \/ Len(part) < 7 THEN color
             ELSE IF /\ parseHex2(substring(part, 1, 3)) < 64
                     /\ parseHex2(substring(part, 3, 5)) < 64
                     /\ parseHex2(substring(part, 5, 7)) < 64
                  THEN Null
                  ELSE color

getTagColor(tagTextIn, preColor, env) ==
    IF ~env.inline THEN Null
    ELSE LET tagText == toLowerCase(tagTextIn) IN
        IF tagText \in DOMAIN env.special THEN fixDark(env.special[tagText], env)
        ELSE LET colorText == substring(tagText, Len("&color["), Len(tagText) - 1) IN
            IF /\ startsWith(tagText, "&color[") /\ endsWith(tagText, "]") /\ ~includes(tagText, ".")
               /\ Len(colorText) = 7 /\ startsWith(colorText, "#") /\ isHex(substringFrom(colorText, 1))
            THEN fixDark(colorText, env)
            ELSE IF tagText \in DOMAIN formatCodes /\ getColorData(preColor, env) # Null
            THEN LET formatter == formatCodes[tagText]
                     rgb == getColorData(preColor, env)
                 IN  CASE formatter = "bold" -> rgb \o "|weight=bold"
                       [] formatter = "italic" -> rgb \o "|style=italic"
                       [] formatter = "strike" -> rgb \o "|strike=true"
                       [] OTHER -> rgb \o "|underline=true"
            ELSE Null

TAG_ALLOWED == "abcdefghijklmnopqrstuvwxyzABCDEFGHIJKLMNOPQRSTUVWXYZ0123456789&_["

dataActions == << ":->:", ":<-:", ":|:", ":!", ":++", ":--", ":<-", ":+:", ":-:", ":*:", ":/:", ":" >>

indexOfAny(text, searches, start) ==
    LET hits == { indexOf(text, x, start) : x \in searches } \ { -1 }
    IN  IF hits = {} THEN -1 ELSE CHOOSE h \in hits : \A g \in hits : h <= g

RECURSIVE decorateDefNameFrom(_, _, _, _, _)
decorateDefNameFrom(part, lineNumber, start, dot, lastIndex) ==
    IF dot # -1
    THEN << Dec("def_name", lineNumber, start + lastIndex, start + dot),
            Dec("tag_dot", lineNumber, start + dot - 1, start + dot + 1) >>
         \o decorateDefNameFrom(part, lineNumber, start,
                                indexOfAny(part, { ".", "|" }, dot + 1), dot + 1)
    ELSE << Dec("def_name", lineNumber, start + lastIndex, start + Len(part)) >>

decorateDefName(part, lineNumber, start) ==
    decorateDefNameFrom(part, lineNumber, start, indexOfAny(part, { ".", "|" }, 0), 0)

RECURSIVE decorateSpaceableFrom(_, _, _, _, _, _)
decorateSpaceableFrom(line, preLength, lineNumber, decorType, i, lastDecor) ==
    IF i >= Len(line)
    THEN IF lastDecor < Len(line)
         THEN << Dec(decorType, lineNumber, preLength + lastDecor, preLength + Len(line)) >>
         ELSE << >>
    ELSE IF charAt(line, i) = " "
    THEN << Dec(decorType, lineNumber, preLength + lastDecor, preLength + i),
            Dec("space", lineNumber, preLength + i, preLength + i + 1) >>
         \o decorateSpaceableFrom(line, preLength, lineNumber, decorType, i + 1, i + 1)
    ELSE decorateSpaceableFrom(line, preLength, lineNumber, decorType, i + 1, lastDecor)

decorateSpaceable(line, preLength, lineNumber, decorType) ==
    decorateSpaceableFrom(line, preLength, lineNumber, decorType, 0, 0)

decorateComment(line, lineNumber, decorType) ==
    decorateSpaceable(line, 0, lineNumber, decorType)

Emit(st, d) == [st EXCEPT !.out = Append(@, d)]

EmitAll(st, ds) == [st EXCEPT !.out = @ \o ds]

(* decorateTag: st holds the locals of the loop; env the behaviour flags.  *)
RECURSIVE decorateTag(_, _, _, _)
RECURSIVE decorateTagLoop(_, _, _, _, _, _)

decorateTagInit ==
    [ inTagCounter |-> 0, tagStart |-> 0, inTagParamCounter |-> 0, defaultDecor |-> "tag",
      lastDecor |-> -1, textColor |-> "tag_param", lastDot |-> 0, lastBracket |-> 0,
      out |-> << >> ]

(* Variant: an opening "<" inside a tag is not counted. *)
decorateTagOpenUncounted(tag, start, lineNumber, i, st) == st

decorateTagOpen(tag, start, lineNumber, i, st) ==
    LET n == st.inTagCounter + 1 IN
    IF n = 1
    THEN [ Emit(st, Dec(st.defaultDecor, lineNumber, start + st.lastDecor, start + i))
             EXCEPT !.inTagCounter = n, !.lastDecor = i, !.textColor = st.defaultDecor,
                    !.defaultDecor = "tag", !.tagStart = i, !.lastDot = i ]
    ELSE [ st EXCEPT !.inTagCounter = n ]

decorateTagClose(tag, start, lineNumber, env, i, st) ==
    LET n == st.inTagCounter - 1 IN
    IF n = 0
    THEN LET tagText == substring(tag, st.tagStart + 1, i)
             autoColor == getTagColor(tagText, st.textColor, env)
             closing == Dec("tag", lineNumber, start + i, start + i + 1)
         IN  IF autoColor # Null
             THEN [ EmitAll(st, << Dec("auto:" \o autoColor, lineNumber, start + st.tagStart + 1, start + i),
                                   Dec("tag", lineNumber, start + st.tagStart, start + st.tagStart + 1),
                                   closing >>)
                      EXCEPT !.inTagCounter = n, !.defaultDecor = "auto:" \o autoColor,
                             !.textColor = "auto:" \o autoColor, !.lastDecor = i + 1 ]
             ELSE [ EmitAll(st, decorateTag(tagText, start + st.tagStart + 1, lineNumber, env)
                                \o << closing >>)
                      EXCEPT !.inTagCounter = n,
                             !.defaultDecor = IF st.inTagParamCounter > 0 THEN st.textColor ELSE "tag",
                             !.lastDecor = i + 1 ]
    ELSE [ st EXCEPT !.inTagCounter = n ]

decorateTagParamOpen(tag, start, lineNumber, i, st) ==
    LET n == st.inTagParamCounter + 1
        lastTag == substring(tag, 0, i)
    IN
    IF n = 1
    THEN [ EmitAll(st, << Dec(st.defaultDecor, lineNumber, start + st.lastDecor, start + i),
                          Dec("tag_param_bracket", lineNumber, start + i, start + i + 1) >>)
             EXCEPT !.inTagParamCounter = n, !.lastBracket = i, !.lastDecor = i + 1,
                    !.defaultDecor =
                        IF i = 0 THEN "def_name"
                        ELSE IF \/ endsWith(lastTag, ".flag")
                                \/ endsWith(lastTag, ".flag_expiration")
                                \/ endsWith(lastTag, ".has_flag")
                        THEN "def_name"
                        ELSE "tag_param" ]
    ELSE [ st EXCEPT !.inTagParamCounter = n ]

decorateTagParamClose(tag, start, lineNumber, env, i, st) ==
    LET n == st.inTagParamCounter - 1
        lastTag == substring(tag, st.lastDot + 1, st.lastBracket)
        bracketedText == substring(tag, st.lastBracket + 1, i)
        colorFormat == "&[" \o toLowerCase(bracketedText) \o "]"
        closing == Dec("tag_param_bracket", lineNumber, start + i, start + i + 1)
        inner ==
            IF /\ lastTag = "custom_color" /\ ~includes(bracketedText, "<")
               /\ colorFormat \in DOMAIN env.special
            THEN << Dec("auto:" \o env.special[colorFormat], lineNumber,
                        start + st.lastDecor, start + i) >>
            ELSE IF st.defaultDecor = "def_name"
            THEN decorateDefName(substring(tag, st.lastDecor, i), lineNumber, start + st.lastDecor)
            ELSE << Dec(st.defaultDecor, lineNumber, start + st.lastDecor, start + i) >>
    IN
    IF n = 0
    THEN [ EmitAll(st, inner \o << closing >>)
             EXCEPT !.inTagParamCounter = n, !.defaultDecor = "tag", !.lastDecor = i + 1 ]
    ELSE [ st EXCEPT !.inTagParamCounter = n ]

decorateTagStep(tag, start, lineNumber, env, i, st) ==
    LET c == charAt(tag, i) IN
    IF c = "<" THEN decorateTagOpen(tag, start, lineNumber, i, st)
    ELSE IF c = ">" /\ st.inTagCounter > 0 THEN decorateTagClose(tag, start, lineNumber, env, i, st)
    ELSE IF c = "[" /\ st.inTagCounter = 0 /\ i + 1 < Len(tag)
         THEN decorateTagParamOpen(tag, start, lineNumber, i, st)
    ELSE IF c = "]" /\ st.inTagCounter = 0 THEN decorateTagParamClose(tag, start, lineNumber, env, i, st)
    ELSE IF (c = "." \/ c = "|") /\ st.inTagCounter = 0 /\ st.inTagParamCounter = 0
         THEN [ EmitAll(st, << Dec(st.defaultDecor, lineNumber, start + st.lastDecor, start + i),
                               Dec("tag_dot", lineNumber, start + i, start + i + 1) >>)
                  EXCEPT !.lastDecor = i + 1, !.lastDot = i ]
    ELSE IF c = " " /\ st.inTagCounter = 0
         THEN [ EmitAll(st, << Dec(st.defaultDecor, lineNumber, start + st.lastDecor, start + i),
                               Dec("space", lineNumber, start + i, start + i + 1) >>)
                  EXCEPT !.lastDecor = i + 1 ]
    ELSE st

decorateTagLoop(tag, start, lineNumber, env, i, st) ==
    IF i < Len(tag)
    THEN decorateTagLoop(tag, start, lineNumber, env, i + 1,
                         decorateTagStep(tag, start, lineNumber, env, i, st))
    ELSE IF st.lastDecor < Len(tag)
         THEN st.out \o << Dec(st.defaultDecor, lineNumber, start + st.lastDecor, start + Len(tag)) >>
         ELSE st.out

decorateTag(tag, start, lineNumber, env) ==
    decorateTagLoop(tag, start, lineNumber, env, 0, decorateTagInit)

RECURSIVE replaceAll(_, _)
replaceAll(s, ch) ==
    IF Len(s) = 0 THEN s
    ELSE (IF charAt(s, 0) = ch THEN "" ELSE charAt(s, 0)) \o replaceAll(Tail(s), ch)

QuoteDecor(c) == IF c = "\"" THEN "quote_double" ELSE "quote_single"

(* The first entry of dataActions that afterColon starts with, or Null.   *)
RECURSIVE firstDataAction(_, _)
firstDataAction(afterColon, k) ==
    IF k > Len(dataActions) THEN Null
    ELSE IF startsWith(afterColon, dataActions[k]) THEN dataActions[k]
    ELSE firstDataAction(afterColon, k + 1)

(* decorateArg: st holds the locals of the loop, the loop index included,  *)
(* because the special grammars advance it.                                *)
decorateArgInit(arg, canQuote) ==
    [ i |-> 0, quoted |-> FALSE, quoteMode |-> "x", inTagCounter |-> 0, tagStart |-> 0,
      defaultDecor |-> "normal", lastDecor |-> 0,
      hasTagEnd |-> checkIfHasTagEnd(arg, FALSE, "x", canQuote),
      spaces |-> 0, textColor |-> "normal", out |-> << >> ]

(* Variant: a quote character changes the colour but is never tracked as *)
(* opening a quoted region.                                               *)
decorateArgQuoteUntracked(arg, start, lineNumber, c, st) ==
    [ Emit(st, Dec(st.defaultDecor, lineNumber, start + st.lastDecor, start + st.i))
        EXCEPT !.lastDecor = st.i, !.defaultDecor = QuoteDecor(c),
               !.textColor = QuoteDecor(c), !.quoteMode = c ]

decorateArgQuote(arg, start, lineNumber, c, st) ==
    LET i == st.i IN
    IF st.quoted /\ c = st.quoteMode
    THEN [ EmitAll(st, << Dec(st.defaultDecor, lineNumber, start + st.lastDecor, start + i),
                          Dec(QuoteDecor(c), lineNumber, start + i, start + i + 1) >>)
             EXCEPT !.lastDecor = i + 1, !.defaultDecor = "normal", !.textColor = "normal",
                    !.quoted = FALSE ]
    ELSE IF ~st.quoted
    THEN [ Emit(st, Dec(st.defaultDecor, lineNumber, start + st.lastDecor, start + i))
             EXCEPT !.lastDecor = i, !.quoted = TRUE, !.defaultDecor = QuoteDecor(c),
                    !.textColor = QuoteDecor(c), !.quoteMode = c ]
    ELSE st

decorateArgTagOpen(arg, start, lineNumber, st) ==
    LET i == st.i
        n == st.inTagCounter + 1
    IN
    IF n = 1
    THEN [ Emit(st, Dec(st.defaultDecor, lineNumber, start + st.lastDecor, start + i))
             EXCEPT !.inTagCounter = n, !.lastDecor = i, !.tagStart = i, !.defaultDecor = "tag" ]
    ELSE [ st EXCEPT !.inTagCounter = n ]

decorateArgTagClose(arg, start, lineNumber, env, st) ==
    LET i == st.i
        n == st.inTagCounter - 1
        tagText == substring(arg, st.tagStart + 1, i)
        autoColor == getTagColor(tagText, st.textColor, env)
        closing == Dec("tag", lineNumber, start + i, start + i + 1)
    IN
    IF n = 0
    THEN IF autoColor # Null
         THEN [ EmitAll(st, << Dec("tag", lineNumber, start + st.tagStart, start + st.tagStart + 1),
                               Dec("auto:" \o autoColor, lineNumber, start + st.tagStart + 1, start + i),
                               closing >>)
                  EXCEPT !.inTagCounter = n, !.defaultDecor = "auto:" \o autoColor,
                         !.textColor = "auto:" \o autoColor, !.lastDecor = i + 1 ]
         ELSE [ EmitAll(st, decorateTag(tagText, start + st.tagStart + 1, lineNumber, env)
                            \o << closing >>)
                  EXCEPT !.inTagCounter = n, !.defaultDecor = st.textColor, !.lastDecor = i + 1 ]
    ELSE [ st EXCEPT !.inTagCounter = n ]

decorateArgDefColon(arg, start, lineNumber, canQuote, st) ==
    LET i == st.i
        origPart == substring(arg, st.lastDecor, i)
        bump == IF canQuote /\ (startsWith(origPart, "'") \/ startsWith(origPart, "\"")) THEN 1 ELSE 0
        part == IF bump = 1 THEN substringFrom(origPart, 1) ELSE origPart
        head ==
            IF bump = 1
            THEN << Dec(IF startsWith(origPart, "\"") THEN "quote_double" ELSE "quote_single",
                        lineNumber, start + st.lastDecor, start + st.lastDecor + 1),
                    Dec("normal", lineNumber, start + st.lastDecor + 1,
                        start + st.lastDecor + 1 + Len("def.")) >>
            ELSE << Dec(st.defaultDecor, lineNumber, start + st.lastDecor,
                        start + st.lastDecor + Len("def.")) >>
    IN
    IF startsWith(part, "def.") /\ ~includes(part, "<") /\ ~includes(part, " ")
    THEN [ EmitAll(st, head \o decorateDefName(substringFrom(part, Len("def.")), lineNumber,
                                               start + bump + st.lastDecor + Len("def.")))
             EXCEPT !.lastDecor = i ]
    ELSE st

(* The definition-name split of define, definemap and flag (st is the      *)
(* state after the space itself has been handled).                         *)
decorateArgDefine(nextArg, start, lineNumber, contextualLabel, st) ==
    LET i == st.i
        found == indexOf(nextArg, ":", 0)
        colonIndex ==
            IF contextualLabel = "cmd:flag" /\ startsWith(nextArg, "expire:") THEN -1
            ELSE IF found = -1 /\ contextualLabel # "cmd:flag" THEN Len(nextArg)
            ELSE found
        tagMark == indexOf(nextArg, "<", 0)
        argStart == charAt(nextArg, 0)
        isQuote == argStart = "\"" \/ argStart = "'"
        bump == IF isQuote THEN 1 ELSE 0
        head == IF isQuote
                THEN << Dec(QuoteDecor(argStart), lineNumber, start + i + 1, start + i + 2) >>
                ELSE << >>
        name == decorateDefName(substring(nextArg, bump, colonIndex), lineNumber, start + i + 1 + bump)
        ni == i + colonIndex
        action == firstDataAction(substringFrom(nextArg, colonIndex), 1)
        st1 == [ EmitAll(st, head \o name)
                   EXCEPT !.i = ni, !.lastDecor = ni + bump,
                          !.quoted = IF isQuote THEN TRUE ELSE st.quoted,
                          !.defaultDecor = IF isQuote THEN QuoteDecor(argStart) ELSE st.defaultDecor,
                          !.quoteMode = IF isQuote THEN argStart ELSE st.quoteMode ]
    IN
    IF (tagMark = -1 \/ tagMark > colonIndex) /\ colonIndex # -1
    THEN IF action # Null
         THEN [ Emit(st1, Dec("data_actions", lineNumber, start + ni + 1, start + ni + 1 + Len(action)))
                  EXCEPT !.lastDecor = ni + Len(action) + 1 ]
         ELSE st1
    ELSE st

(* Variant: define and definemap split every token, as flag does. *)
splitsDefNameAnyToken(spaces, contextualLabel) ==
    contextualLabel \in { "cmd:define", "cmd:definemap", "cmd:flag" }

(* The condition under which the token after a space goes to the          *)
(* definition-name split.                                                  *)
splitsDefName(spaces, contextualLabel) ==
    \/ /\ spaces = 1
       /\ (contextualLabel = "cmd:define" \/ contextualLabel = "cmd:definemap")
    \/ contextualLabel = "cmd:flag"

decorateArgSpace(arg, start, lineNumber, canQuote, contextualLabel, st) ==
    LET i == st.i
        st1 == [ EmitAll(st, << Dec(st.defaultDecor, lineNumber, start + st.lastDecor, start + i),
                                Dec("space", lineNumber, start + i, start + i + 1) >>)
                   EXCEPT !.hasTagEnd = checkIfHasTagEnd(substringFrom(arg, i + 1), st.quoted,
                                                         st.quoteMode, canQuote),
                          !.lastDecor = i + 1, !.inTagCounter = 0,
                          !.defaultDecor = IF canQuote THEN "normal" ELSE st.textColor,
                          !.spaces = st.spaces + 1 ]
        nextArg == IF includesFrom(arg, " ", i + 1)
                   THEN substring(arg, i + 1, indexOf(arg, " ", i + 1))
                   ELSE substringFrom(arg, i + 1)
        consumed == [ i |-> i + Len(nextArg), lastDecor |-> i + Len(nextArg) + 1 ]
    IN
    IF nextArg \in ifOperators /\ contextualLabel \in ifCmdLabels
    THEN [ Emit(st1, Dec("if_operators", lineNumber, start + i + 1, start + i + 1 + Len(nextArg)))
             EXCEPT !.i = consumed.i, !.lastDecor = consumed.lastDecor ]
    ELSE IF /\ startsWith(nextArg, "as:") /\ ~includes(nextArg, "<")
            /\ (contextualLabel = "cmd:foreach" \/ contextualLabel = "cmd:repeat")
    THEN [ EmitAll(st1, << Dec("normal", lineNumber, start + i + 1, start + i + 1 + Len("as:")) >>
                        \o decorateDefName(substringFrom(nextArg, Len("as:")), lineNumber,
                                           start + i + 1 + Len("as:")))
             EXCEPT !.i = consumed.i, !.lastDecor = consumed.lastDecor ]
    ELSE IF /\ startsWith(nextArg, "key:") /\ ~includes(nextArg, "<")
            /\ contextualLabel = "cmd:foreach"
    THEN [ EmitAll(st1, << Dec("normal", lineNumber, start + i + 1, start + i + 1 + Len("key:")) >>
                        \o decorateDefName(substringFrom(nextArg, Len("key:")), lineNumber,
                                           start + i + 1 + Len("key:")))
             EXCEPT !.i = consumed.i, !.lastDecor = consumed.lastDecor ]
    ELSE IF splitsDefName(st1.spaces, contextualLabel)
    THEN decorateArgDefine(nextArg, start, lineNumber, contextualLabel, st1)
    ELSE st1

decorateArgStep(arg, start, lineNumber, env, canQuote, contextualLabel, st) ==
    LET i == st.i
        c == charAt(arg, i)
    IN
    IF canQuote /\ (c = "\"" \/ c = "'") THEN decorateArgQuote(arg, start, lineNumber, c, st)
    ELSE IF /\ st.hasTagEnd /\ c = "<" /\ i + 1 < Len(arg)
            /\ includes(TAG_ALLOWED, charAt(arg, i + 1))
         THEN decorateArgTagOpen(arg, start, lineNumber, st)
    ELSE IF st.hasTagEnd /\ c = ">" /\ st.inTagCounter > 0
         THEN decorateArgTagClose(arg, start, lineNumber, env, st)
    ELSE IF /\ st.inTagCounter = 0 /\ c = ":"
            /\ replaceAll(contextualLabel, "~") \in deffableCmdLabels
         THEN decorateArgDefColon(arg, start, lineNumber, canQuote, st)
    ELSE IF c = " " /\ (st.quoted \/ ~canQuote) /\ st.inTagCounter = 0
         THEN [ EmitAll(st, << Dec(st.defaultDecor, lineNumber, start + st.lastDecor, start + i),
                               Dec("space", lineNumber, start + i, start + i + 1) >>)
                  EXCEPT !.lastDecor = i + 1 ]
    ELSE IF c = " " /\ ~st.quoted /\ canQuote /\ st.inTagCounter = 0
         THEN decorateArgSpace(arg, start, lineNumber, canQuote, contextualLabel, st)
    ELSE st

RECURSIVE decorateArgLoop(_, _, _, _, _, _, _)
decorateArgLoop(arg, start, lineNumber, env, canQuote, contextualLabel, st) ==
    IF st.i < Len(arg)
    THEN LET nx == decorateArgStep(arg, start, lineNumber, env, canQuote, contextualLabel, st)
         IN  decorateArgLoop(arg, start, lineNumber, env, canQuote, contextualLabel,
                             [ nx EXCEPT !.i = nx.i + 1 ])
    ELSE IF st.lastDecor < Len(arg)
         THEN st.out \o << Dec(st.defaultDecor, lineNumber, start + st.lastDecor, start + Len(arg)) >>
         ELSE st.out

decorateArg(arg, start, lineNumber, env, canQuote, contextualLabel) ==
    decorateArgLoop(arg, start, lineNumber, env, canQuote, contextualLabel,
                    decorateArgInit(arg, canQuote))

RECURSIVE decorateDefinitionsKeyFrom(_, _, _, _, _, _)
decorateDefinitionsKeyFrom(arg, start, lineNumber, i, lastDecor, textColor) ==
    LET c == charAt(arg, i)
        upTo == Dec(textColor, lineNumber, start + lastDecor, start + i)
        here(type) == Dec(type, lineNumber, start + i, start + i + 1)
    IN
    IF i >= Len(arg)
    THEN IF lastDecor < Len(arg) - 1
         THEN << Dec(textColor, lineNumber, start + lastDecor, start + Len(arg)) >>
         ELSE << >>
    ELSE IF c = "["
    THEN << upTo, here("tag_param_bracket") >>
         \o decorateDefinitionsKeyFrom(arg, start, lineNumber, i + 1, i + 1, "tag_param")
    ELSE IF c = "]"
    THEN << upTo, here("tag_param_bracket") >>
         \o decorateDefinitionsKeyFrom(arg, start, lineNumber, i + 1, i + 1, "bad_space")
    ELSE IF c = " "
    THEN << upTo, here("space") >>
         \o decorateDefinitionsKeyFrom(arg, start, lineNumber, i + 1, i + 1, textColor)
    ELSE IF c = "|"
    THEN << upTo, here("normal") >>
         \o decorateDefinitionsKeyFrom(arg, start, lineNumber, i + 1, i + 1, "def_name")
    ELSE decorateDefinitionsKeyFrom(arg, start, lineNumber, i + 1, lastDecor, textColor)

decorateDefinitionsKey(arg, start, lineNumber) ==
    decorateDefinitionsKeyFrom(arg, start, lineNumber, 0, 0, "def_name")

RECURSIVE decorateEventLineFrom(_, _, _, _, _)
decorateEventLineFrom(args, preLength, lineNumber, k, charIndex) ==
    IF k > Len(args) THEN << >>
    ELSE LET arg == args[k]
             format == IF charIndex = 0 /\ (arg = "on" \/ arg = "after") THEN "key" ELSE "event_line"
             gap == IF charIndex > 0
                    THEN << Dec("space", lineNumber, preLength + charIndex - 1, preLength + charIndex) >>
                    ELSE << >>
             colon == indexOf(arg, ":", 0)
             word ==
                 IF colon # -1
                 THEN << Dec("event_switch", lineNumber, preLength + charIndex, preLength + charIndex + colon),
                         Dec("colons", lineNumber, preLength + charIndex + colon,
                             preLength + charIndex + colon + 1),
                         Dec("event_switch_value", lineNumber, preLength + charIndex + colon + 1,
                             preLength + charIndex + Len(arg)) >>
                 ELSE << Dec(format, lineNumber, preLength + charIndex, preLength + charIndex + Len(arg)) >>
         IN  gap \o word
             \o decorateEventLineFrom(args, preLength, lineNumber, k + 1, charIndex + Len(arg) + 1)

decorateEventLine(line, preLength, lineNumber) ==
    decorateEventLineFrom(split(line, " "), preLength, lineNumber, 1, 0)

definiteNotScriptKeys ==
    { "interact scripts", "default constants", "data", "constants", "text", "lore",
      "aliases", "slots", "enchantments", "input", "description" }

headerSymbols == "|+=#_@/"

decorateLineComment(line, trimmed, lineNumber) ==
    LET afterComment == trim(substringFrom(trimmed, 1))
        symbol == IF Len(afterComment) = 0 THEN " " ELSE charAt(afterComment, 0)
    IN  IF includes(headerSymbols, symbol) THEN decorateComment(line, lineNumber, "comment_header")
        ELSE IF startsWith(afterComment, "-") THEN decorateComment(line, lineNumber, "comment_code")
        ELSE IF startsWith(toLowerCase(afterComment), "todo")
             THEN decorateComment(line, lineNumber, "comment_todo")
        ELSE decorateComment(line, lineNumber, "comment_normal")

(* The script branch of a "-" line: the command name and its arguments.   *)
decorateLineScriptCommand(trimmedIn, preSpaces, lineNumber, env) ==
    LET hasColon == endsWith(trimmedIn, ":")
        colon == IF hasColon
                 THEN << Dec("colons", lineNumber, preSpaces + Len(trimmedIn) - 1,
                             preSpaces + Len(trimmedIn)) >>
                 ELSE << >>
        trimmed == IF hasColon THEN substring(trimmedIn, 0, Len(trimmedIn) - 1) ELSE trimmedIn
        afterDash == substringFrom(trimmed, 1)
        commandEnd == indexOf(afterDash, " ", 1) + 1
        endIndexCleaned == preSpaces + (IF commandEnd = 0 THEN Len(trimmed) ELSE commandEnd)
        commandText == IF commandEnd = 0 THEN afterDash ELSE substring(afterDash, 0, commandEnd)
    IN
    IF ~startsWith(afterDash, " ")
    THEN colon
         \o << Dec("bad_space", lineNumber, preSpaces + 1, endIndexCleaned) >>
         \o decorateArg(substringFrom(trimmed, commandEnd), preSpaces + commandEnd, lineNumber, env,
                        FALSE, "cmd:" \o trim(commandText))
    ELSE IF includes(commandText, "'") \/ includes(commandText, "\"") \/ includes(commandText, "[")
    THEN colon
         \o decorateArg(substringFrom(trimmed, 2), preSpaces + 2, lineNumber, env, FALSE, "non-cmd")
    ELSE colon
         \o << Dec("command", lineNumber, preSpaces + 2, endIndexCleaned) >>
         \o (IF commandEnd > 0
             THEN decorateArg(substringFrom(trimmed, commandEnd), preSpaces + commandEnd, lineNumber,
                              env, TRUE, "cmd:" \o trim(commandText))
             ELSE << >>)

(* Variant: the script branch taken whether or not data mode is open. *)
decorateLineCommandAsScript(trimmed, preSpaces, lineNumber, env, isData) ==
    << Dec("normal", lineNumber, preSpaces, preSpaces + 1) >>
    \o decorateLineScriptCommand(trimmed, preSpaces, lineNumber, env)

decorateLineCommand(trimmed, preSpaces, lineNumber, env, isData) ==
    << Dec("normal", lineNumber, preSpaces, preSpaces + 1) >>
    \o (IF isData
        THEN decorateArg(substringFrom(trimmed, 1), preSpaces + 1, lineNumber, env,
                         FALSE, "non-script")
        ELSE decorateLineScriptCommand(trimmed, preSpaces, lineNumber, env))

decorateLineKey(trimmed, trimmedEnd, preSpaces, lineNumber) ==
    (IF startsWith(trimmed, "on ") \/ startsWith(trimmed, "after ")
     THEN decorateEventLine(substring(trimmed, 0, Len(trimmed) - 1), preSpaces, lineNumber)
     ELSE decorateSpaceable(substring(trimmed, 0, Len(trimmed) - 1), preSpaces, lineNumber, "key"))
    \o << Dec("colons", lineNumber, Len(trimmedEnd) - 1, Len(trimmedEnd)) >>

decorateLineInline(line, trimmed, preSpaces, lineNumber, env) ==
    LET colonIndex == indexOf(line, ": ", 0)
        key == substring(trimmed, 0, colonIndex - preSpaces)
        value == substringFrom(trimmed, colonIndex - preSpaces + 2)
    IN  decorateSpaceable(key, preSpaces, lineNumber, "key_inline")
        \o << Dec("colons", lineNumber, colonIndex, colonIndex + 1),
              Dec("space", lineNumber, colonIndex + 1, colonIndex + 2) >>
        \o (IF key = "definitions"
            THEN decorateDefinitionsKey(value, colonIndex + 2, lineNumber)
            ELSE decorateArg(value, colonIndex + 2, lineNumber, env, FALSE, "key:" \o key))

(* Variant: the block header rule is tried before the command rule. *)
decorateLineKeyFirst(lineIn, lineNumber, env, isData) ==
    LET line == IF endsWith(lineIn, "\r") THEN substring(lineIn, 0, Len(lineIn) - 1) ELSE lineIn
        trimmedEnd == trimEnd(line)
        trimmed == trimStart(trimmedEnd)
        preSpaces == Len(trimmedEnd) - Len(trimmed)
        tail == IF Len(trimmedEnd) # Len(line)
                THEN << Dec("bad_space", lineNumber, Len(trimmedEnd), Len(line)) >>
                ELSE << >>
    IN
    IF Len(trimmed) = 0 THEN << >>
    ELSE tail \o
        (IF startsWith(trimmed, "#") THEN decorateLineComment(line, trimmed, lineNumber)
         ELSE IF endsWith(trimmed, ":")
              THEN decorateLineKey(trimmed, trimmedEnd, preSpaces, lineNumber)
         ELSE IF startsWith(trimmed, "-")
              THEN decorateLineCommand(trimmed, preSpaces, lineNumber, env, isData)
         ELSE IF includes(trimmed, ": ")
              THEN decorateLineInline(line, trimmed, preSpaces, lineNumber, env)
         ELSE << Dec("bad_space", lineNumber, preSpaces, Len(line)) >>)

(* decorateLine: the decorations the line adds, in the order of the calls  *)
(* to addDecor.                                                            *)
decorateLine(lineIn, lineNumber, env, isData) ==
    LET line == IF endsWith(lineIn, "\r") THEN substring(lineIn, 0, Len(lineIn) - 1) ELSE lineIn
        trimmedEnd == trimEnd(line)
        trimmed == trimStart(trimmedEnd)
        preSpaces == Len(trimmedEnd) - Len(trimmed)
        tail == IF Len(trimmedEnd) # Len(line)
                THEN << Dec("bad_space", lineNumber, Len(trimmedEnd), Len(line)) >>
                ELSE << >>
    IN
    IF Len(trimmed) = 0 THEN << >>
    ELSE tail \o
        (IF startsWith(trimmed, "#") THEN decorateLineComment(line, trimmed, lineNumber)
         ELSE IF startsWith(trimmed, "-")
              THEN decorateLineCommand(trimmed, preSpaces, lineNumber, env, isData)
         ELSE IF endsWith(trimmed, ":")
              THEN decorateLineKey(trimmed, trimmedEnd, preSpaces, lineNumber)
         ELSE IF includes(trimmed, ": ")
              THEN decorateLineInline(line, trimmed, preSpaces, lineNumber, env)
         ELSE << Dec("bad_space", lineNumber, preSpaces, Len(line)) >>)

----------------------------------------------------------------------------
(* The incremental highlight cache and decorateFullFile.                   *)
(*                                                                         *)
(* A document is the sequence of its lines (fullText.split('\n')), so it   *)
(* always has at least one line.  highlightDecors is the sequence of its   *)
(* keys in insertion order, the order "for (const c in highlightDecors)"   *)
(* visits them.  A decorations object is a function from its keys to the   *)
(* list of ranges of each key.                                             *)

displayDarkColors == FALSE

NoDecorations == [ c \in {} |-> << >> ]

HighlightCache ==
    [ needRefreshStartLine |-> -1, needRefreshEndLine |-> -1, needRefreshLineShift |-> 0,
      lastDecorations |-> NoDecorations ]

getCache(caches, path) ==
    IF path \in DOMAIN caches THEN caches
    ELSE [ p \in DOMAIN caches \cup { path } |->
             IF p = path THEN HighlightCache ELSE caches[p] ]

(* The categories colorSet has recorded a style string for.                *)
highlightColorRef(hd) == { hd[k] : k \in { j \in 1..Len(hd) : ~startsWith(hd[j], "auto:") } }

TokenEnv(hd, inline) ==
    [ inline |-> inline, dark |-> displayDarkColors, ref |-> highlightColorRef(hd),
      special |-> tagSpecialColors ]

(* addDecor over a list of ranges, in order.  acc.ok turns FALSE at the   *)
(* first range whose category has no list in the decorations object       *)
(* (decorations[type] is undefined and .push raises a TypeError); the     *)
(* ranges before it have been added.                                       *)
addDecor(acc, d) ==
    LET isNew == ~InSeq(d.type, acc.hd) /\ startsWith(d.type, "auto:")
        hd1 == IF isNew THEN Append(acc.hd, d.type) ELSE acc.hd
        decs1 == IF isNew
                 THEN [ c \in DOMAIN acc.decorations \cup { d.type } |->
                          IF c = d.type THEN << >> ELSE acc.decorations[c] ]
                 ELSE acc.decorations
    IN  IF d.type \in DOMAIN decs1
        THEN [ acc EXCEPT !.hd = hd1, !.decorations = [ decs1 EXCEPT ![d.type] = Append(@, d) ] ]
        ELSE [ acc EXCEPT !.hd = hd1, !.decorations = decs1, !.ok = FALSE ]

RECURSIVE addDecorAll(_, _, _)
addDecorAll(acc, ds, k) ==
    IF k > Len(ds) \/ ~acc.ok THEN acc
    ELSE addDecorAll(addDecor(acc, ds[k]), ds, k + 1)

(* definitelyDataSpacing after the loop of decorateFullFile has looked at *)
(* line i (0-based), starting from the value before that line.            *)
lineSpaces(lineText) == Len(lineText) - Len(trimStart(lineText))

(* Variant: a "type: data" line anchors the block at its own column. *)
dataSpacingStepAtColumn(lineText, before) ==
    LET spaces == lineSpaces(lineText)
        trimmedLine == trimEnd(trimStart(lineText))
        lastKey == toLowerCase(substring(trimmedLine, 0, Len(trimmedLine) - 1))
        closed == IF spaces <= before THEN -1 ELSE before
        afterKey ==
            IF endsWith(trimmedLine, ":") /\ ~startsWith(trimmedLine, "-")
            THEN IF lastKey \in definiteNotScriptKeys /\ closed = -1 THEN spaces ELSE closed
            ELSE IF trimmedLine = "type: data" /\ (before = -1 \/ spaces <= before)
                 THEN spaces
                 ELSE before
    IN  IF spaces < afterKey THEN -1 ELSE afterKey

dataSpacingStep(lineText, before) ==
    LET spaces == lineSpaces(lineText)
        trimmedLine == trimEnd(trimStart(lineText))
        lastKey == toLowerCase(substring(trimmedLine, 0, Len(trimmedLine) - 1))
        closed == IF spaces <= before THEN -1 ELSE before
        afterKey ==
            IF endsWith(trimmedLine, ":") /\ ~startsWith(trimmedLine, "-")
            THEN IF lastKey \in definiteNotScriptKeys /\ closed = -1 THEN spaces ELSE closed
            ELSE IF trimmedLine = "type: data" /\ (before = -1 \/ spaces <= before)
                 THEN spaces - 1
                 ELSE before
    IN  IF spaces < afterKey THEN -1 ELSE afterKey

(* The ranges the loop "Actually choose colors" adds, in order: lines     *)
(* startLine .. endLine - 1 go to decorateLine.                            *)
RECURSIVE classifyLines(_, _, _, _, _, _)
classifyLines(splitText, i, startLine, endLine, spacingBefore, env) ==
    IF i >= endLine THEN << >>
    ELSE LET spacing == dataSpacingStep(splitText[i + 1], spacingBefore)
         IN  (IF i >= startLine THEN decorateLine(splitText[i + 1], i, env, spacing # -1) ELSE << >>)
             \o classifyLines(splitText, i + 1, startLine, endLine, spacing, env)

shiftRange(r, shift) == [ r EXCEPT !.line = r.line + shift ]

RECURSIVE SelectSeq2(_, _, _)
SelectSeq2(q, lo, hi) ==
    IF q = << >> THEN << >>
    ELSE (IF Head(q).line <= hi /\ Head(q).line >= lo THEN << >> ELSE << Head(q) >>)
         \o SelectSeq2(Tail(q), lo, hi)

(* Variant: the ranges are spliced out without being translated first. *)
shiftAndPruneUnshifted(rangeSet, startLine, endLine, shift) ==
    SelectSeq2(rangeSet, startLine, endLine)

(* One iteration of "for (const c in highlightDecors)" of the partial     *)
(* branch: translate the ranges at or after the boundary, then splice out *)
(* those inside [startLine, endLine].                                      *)
shiftAndPrune(rangeSet, startLine, endLine, shift) ==
    LET boundary == IF shift > 0 THEN endLine - shift ELSE startLine - shift
        moved == [ k \in 1..Len(rangeSet) |->
                     IF shift # 0 /\ rangeSet[k].line >= boundary
                     THEN shiftRange(rangeSet[k], shift)
                     ELSE rangeSet[k] ]
    IN  SelectSeq2(moved, startLine, endLine)

RECURSIVE shiftAndPruneAll(_, _, _, _, _, _)
shiftAndPruneAll(acc, hd, k, startLine, endLine, shift) ==
    IF k > Len(hd) \/ ~acc.ok THEN acc
    ELSE IF hd[k] \notin DOMAIN acc.decorations
    THEN [ acc EXCEPT !.ok = FALSE ]
    ELSE shiftAndPruneAll(
             [ acc EXCEPT !.decorations[hd[k]] = shiftAndPrune(@, startLine, endLine, shift) ],
             hd, k + 1, startLine, endLine, shift)

(* The decorations object a pass starts from: an empty list per key of    *)
(* highlightDecors in a full pass, the cache's own lists, translated and   *)
(* pruned, in a partial pass.                                              *)
(* Variant: a full pass keeps the lists of the cache instead of starting  *)
(* from empty ones.                                                        *)
startDecorationsKept(h0, hd, isFull, startAdj, endAdj) ==
    IF isFull
    THEN [ ok |-> TRUE,
           decorations |-> [ c \in SeqToSet(hd) |->
                               IF c \in DOMAIN h0.lastDecorations
                               THEN h0.lastDecorations[c] ELSE << >> ] ]
    ELSE shiftAndPruneAll([ ok |-> TRUE, decorations |-> h0.lastDecorations ],
                          hd, 1, startAdj, endAdj, h0.needRefreshLineShift)

startDecorations(h0, hd, isFull, startAdj, endAdj) ==
    IF isFull
    THEN [ ok |-> TRUE, decorations |-> [ c \in SeqToSet(hd) |-> << >> ] ]
    ELSE shiftAndPruneAll([ ok |-> TRUE, decorations |-> h0.lastDecorations ],
                          hd, 1, startAdj, endAdj, h0.needRefreshLineShift)

(* Variant: the recorded start line is used even when the cache holds no  *)
(* decorations.                                                            *)
refreshStartLineRecorded(h0) == h0.needRefreshStartLine

(* The start line decorateFullFile works from: a cache without            *)
(* decorations is refreshed in full.                                       *)
refreshStartLine(h0) ==
    IF DOMAIN h0.lastDecorations = {} THEN -1 ELSE h0.needRefreshStartLine

(* The end of decorateFullFile: what the pass leaves, given the          *)
(* decorations it built (coloured).                                        *)
decorateFullFileEnd(caches0, path, h0, isFull, startAdj, endAdj, startLine, endLine, wasCached, coloured) ==
    LET (* the decorations object is the cache's own object in the partial
           branch, a fresh one in the full branch *)
        hDone == [ needRefreshStartLine |-> -1, needRefreshEndLine |-> -1,
                   needRefreshLineShift |-> 0, lastDecorations |-> coloured.decorations ]
        hFailed == [ needRefreshStartLine |-> startAdj, needRefreshEndLine |-> endAdj,
                     needRefreshLineShift |-> h0.needRefreshLineShift,
                     lastDecorations |-> IF isFull THEN h0.lastDecorations
                                         ELSE coloured.decorations ]
    IN  [ caches |-> [ caches0 EXCEPT ![path] = IF coloured.ok THEN hDone ELSE hFailed ],
          hd |-> coloured.hd,
          ok |-> coloured.ok,
          log |-> [ path |-> path, full |-> isFull, startLine |-> startLine, endLine |-> endLine,
                    ok |-> coloured.ok,
                    cached |-> wasCached,
                    before |-> << h0.needRefreshStartLine, h0.needRefreshEndLine,
                                  h0.needRefreshLineShift >> ] ]

(* decorateFullFile(editor) for the document at path with lines           *)
(* splitText.  The result holds the caches and highlightDecors it leaves  *)
(* behind, ok = FALSE when it raised a TypeError part way (the cache then *)
(* keeps what had been changed in place up to that point), and a record   *)
(* of what the pass did.                                                   *)
decorateFullFile(caches, hd, inline, path, splitText) ==
    LET caches0 == getCache(caches, path)
        h0 == caches0[path]
        start0 == refreshStartLine(h0)
        isFull == start0 = -1
        shift == h0.needRefreshLineShift
        (* the partial branch: grow the region by the line shift *)
        endAdj == IF ~isFull /\ shift > 0 THEN h0.needRefreshEndLine + shift ELSE h0.needRefreshEndLine
        startAdj == IF ~isFull /\ shift < 0 THEN start0 + shift ELSE start0
        pruned == startDecorations(h0, hd, isFull, startAdj, endAdj)
        totalLines == Len(splitText)
        startLine == IF startAdj = -1 THEN 0 ELSE startAdj
        endLine == IF startAdj = -1 THEN totalLines ELSE Min(endAdj + 1, totalLines)
    IN  decorateFullFileEnd(
            caches0, path, h0, isFull, startAdj, endAdj, startLine, endLine,
            path \in DOMAIN caches /\ DOMAIN h0.lastDecorations # {},
            IF pruned.ok
            THEN addDecorAll([ ok |-> TRUE, hd |-> hd, decorations |-> pruned.decorations ],
                             classifyLines(splitText, 0, startLine, endLine, -1,
                                           TokenEnv(hd, inline)),
                             1)
            ELSE [ ok |-> FALSE, hd |-> hd, decorations |-> pruned.decorations ])

(* refreshDecor: decorateFullFile for each visible .dsc editor in turn;   *)
(* an error raised by one pass ends the callback.                          *)
refreshDecorPass(acc, r) ==
    [ caches |-> r.caches, hd |-> r.hd, ok |-> r.ok, log |-> Append(acc.log, r.log) ]

RECURSIVE refreshDecorFrom(_, _, _, _, _)
refreshDecorFrom(acc, editors, k, inline, texts) ==
    IF k > Len(editors) \/ ~acc.ok THEN acc
    ELSE IF ~endsWith(editors[k], ".dsc")
    THEN refreshDecorFrom(acc, editors, k + 1, inline, texts)
    ELSE refreshDecorFrom(
             refreshDecorPass(acc, decorateFullFile(acc.caches, acc.hd, inline, editors[k],
                                                    texts[editors[k]])),
             editors, k + 1, inline, texts)

(* loadAllColors: colorSet for every category the configuration has a     *)
(* style for; a category already in highlightDecors keeps its place.      *)
RECURSIVE loadAllColorsFrom(_, _, _)
loadAllColorsFrom(hd, missing, k) ==
    IF k > Len(colorTypes) THEN hd
    ELSE loadAllColorsFrom(
             IF colorTypes[k] \in missing \/ InSeq(colorTypes[k], hd) THEN hd
             ELSE Append(hd, colorTypes[k]),
             missing, k + 1)

loadAllColors(hd, missing) == loadAllColorsFrom(hd, missing, 1)

----------------------------------------------------------------------------
(* The editor session: documents, visible editors, the caches, the        *)
(* refresh timer and the event handlers registered by activate.           *)

VARIABLES
    docs,             \* open documents: path -> sequence of lines
    visible,          \* vscode.window.visibleTextEditors, as a sequence of paths
    HLCaches,         \* path -> HighlightCache
    highlightDecors,  \* keys of highlightDecors, in insertion order
    doInlineColors,
    refreshTimer,     \* TRUE while refreshTimer holds a timer
    timers,           \* number of setTimeout(refreshDecor) calls that have not fired yet
    changeCounter,
    passLog           \* what the run of refreshDecor that just ended did, pass by pass

editorVars ==
    << docs, visible, HLCaches, highlightDecors, doInlineColors, refreshTimer,
       timers, changeCounter, passLog >>

(* Bounds of the exploration. *)
MaxLines == 3

MaxChanges == 3

MaxInsert == 2

Files == { "a.dsc" }

StartTexts == { << "lore:", "  - define a.b <gold>x" >> }

EditLines == { "lore:", "name:", "  - define a.b <gold>x" }

Configurations ==
    { [ missing |-> {}, inline |-> TRUE ],
      [ missing |-> { "tag_dot" }, inline |-> TRUE ] }

NoCaches == [ p \in {} |-> HighlightCache ]

NewTexts == UNION { [ 1..n -> EditLines ] : n \in 1..MaxInsert }

(* The two-document session. *)
MultiMaxLines == 1

MultiMaxChanges == 4

MultiFiles == { "a.dsc", "b.dsc" }

MultiStartTexts == { << "- narrate hi" >> }

MultiNewTexts == { << "- narrate hi" >>, << "- narrate <red>x" >> }

(* The session with a longer document, edited one line at a time. *)
LongMaxLines == 4

LongMaxChanges == 3

LongStartTexts == { << "a:", "- stop", "b:", "- stop" >> }

LongNewTexts == { << "c:" >>, << "- stop" >> }

Orderings(S) ==
    { q \in UNION { [ 1..n -> S ] : n \in 0..Cardinality(S) } :
        \A j, k \in 1..Len(q) : j # k => q[j] # q[k] }

(* Variant: a timer is set even when one is pending. *)
scheduleRefreshAlways ==
    /\ refreshTimer' = TRUE
    /\ timers' = timers + 1

(* scheduleRefresh: sets the timer unless one is pending. *)
scheduleRefresh ==
    IF refreshTimer
    THEN UNCHANGED << refreshTimer, timers >>
    ELSE /\ refreshTimer' = TRUE
         /\ timers' = timers + 1

EditorInit ==
    /\ docs = [ p \in {} |-> << >> ]
    /\ visible = << >>
    /\ HLCaches = NoCaches
    /\ \E cfg \in Configurations :
          /\ highlightDecors = loadAllColors(<< >>, cfg.missing)
          /\ doInlineColors = cfg.inline
    /\ refreshTimer = TRUE
    /\ timers = 1
    /\ changeCounter = 0
    /\ passLog = << >>

(* onDidOpenTextDocument *)
OpenTextDocument(files, startTexts) ==
    \E path \in files \ DOMAIN docs, text \in startTexts :
        /\ docs' = [ p \in DOMAIN docs \cup { path } |-> IF p = path THEN text ELSE docs[p] ]
        /\ IF endsWith(path, ".dsc")
           THEN HLCaches' = NoCaches /\ scheduleRefresh
           ELSE UNCHANGED << HLCaches, refreshTimer, timers >>
        /\ passLog' = << >>
        /\ UNCHANGED << visible, highlightDecors, doInlineColors, changeCounter >>

(* The region one content change records in the cache of its document.    *)
(* event.document is the document after the change, so                    *)
(* getText(change.range) reads the new text between the old range's       *)
(* lines, the end line clamped to the new document.                       *)
recordChange(h, startLine, endLine, newLineCount, newTotalLines) ==
    [ h EXCEPT
        !.needRefreshStartLine =
            IF h.needRefreshStartLine = -1 \/ startLine < h.needRefreshStartLine
            THEN startLine ELSE @,
        !.needRefreshEndLine =
            IF h.needRefreshEndLine = -1 \/ endLine > h.needRefreshEndLine
            THEN endLine ELSE @,
        !.needRefreshLineShift =
            @ + (newLineCount - 1) - (Min(endLine, newTotalLines - 1) - startLine) ]

replaceLines(text, startLine, endLine, newLines) ==
    SubSeq(text, 1, startLine) \o newLines \o SubSeq(text, endLine + 2, Len(text))

(* onDidChangeTextDocument with one content change: the lines startLine   *)
(* .. endLine of the document are replaced by newLines.                   *)
ChangeTextDocument(newTexts, maxLines, maxChanges) ==
    \E path \in DOMAIN docs :
      \E startLine \in 0..(Len(docs[path]) - 1), newLines \in newTexts :
        \E endLine \in startLine..(Len(docs[path]) - 1) :
          LET newText == replaceLines(docs[path], startLine, endLine, newLines)
              recorded == [ getCache(HLCaches, path) EXCEPT
                              ![path] = recordChange(@, startLine, endLine, Len(newLines),
                                                     Len(newText)) ]
          IN  /\ changeCounter < maxChanges
              /\ Len(newText) <= maxLines
              /\ docs' = [ docs EXCEPT ![path] = newText ]
              /\ IF endsWith(path, ".dsc")
                 THEN /\ HLCaches' = IF changeCounter < 2 THEN NoCaches ELSE recorded
                      /\ scheduleRefresh
                      /\ changeCounter' = changeCounter + 1
                 ELSE UNCHANGED << HLCaches, refreshTimer, timers, changeCounter >>
              /\ passLog' = << >>
              /\ UNCHANGED << visible, highlightDecors, doInlineColors >>

(* onDidChangeVisibleTextEditors *)
ChangeVisibleTextEditors ==
    \E editors \in Orderings(DOMAIN docs) :
        /\ editors # visible
        /\ visible' = editors
        /\ IF \E k \in 1..Len(editors) : endsWith(editors[k], ".dsc")
           THEN HLCaches' = NoCaches /\ scheduleRefresh
           ELSE UNCHANGED << HLCaches, refreshTimer, timers >>
        /\ passLog' = << >>
        /\ UNCHANGED << docs, highlightDecors, doInlineColors, changeCounter >>

(* onDidChangeConfiguration *)
ChangeConfiguration ==
    \E cfg \in Configurations :
        /\ highlightDecors' = loadAllColors(highlightDecors, cfg.missing)
        /\ doInlineColors' = cfg.inline
        /\ HLCaches' = NoCaches
        /\ scheduleRefresh
        /\ passLog' = << >>
        /\ UNCHANGED << docs, visible, changeCounter >>

(* The timer of scheduleRefresh fires: refreshDecor. *)
refreshDecorEnd(r) ==
    /\ HLCaches' = r.caches
    /\ highlightDecors' = r.hd
    /\ passLog' = r.log

RefreshDecor ==
    /\ timers > 0
    /\ refreshDecorEnd(refreshDecorFrom([ caches |-> HLCaches, hd |-> highlightDecors,
                                          ok |-> TRUE, log |-> << >> ],
                                        visible, 1, doInlineColors, docs))
    /\ refreshTimer' = FALSE
    /\ timers' = timers - 1
    /\ UNCHANGED << docs, visible, doInlineColors, changeCounter >>

----------------------------------------------------------------------------
(* The folding provider, one line of its loop per step.                    *)

VARIABLES
    foldText,     \* splitText of the document handed to the provider
    foldI,        \* the loop index i
    processing,   \* stack of InProcFold, top last
    output,       \* FoldingRange list
    foldPc        \* "idle", "scan" or "done"

foldVars == << foldText, foldI, processing, output, foldPc >>

InProcFold(start, spacing, isCommand) ==
    [ start |-> start, spacing |-> spacing, isCommand |-> isCommand ]

FoldingRange(start, end) == [ start |-> start, end |-> end ]

foldSpaces(line) == Len(line) - Len(trimStart(line))

(* Variant: the colon is looked for without trimming the line. *)
foldIsBlockUntrimmed(line) == endsWith(line, ":")

foldIsBlock(line) == endsWith(trimEnd(trimStart(line)), ":")

foldIsCommand(line) == startsWith(trimEnd(trimStart(line)), "-")

(* Variant: a line at column zero does not close the open folds. *)
foldShouldPopIndentOnly(lastFold, spaces, isBlock, isCommand) ==
    \/ lastFold.spacing > spaces
    \/ /\ lastFold.spacing = spaces
       /\ ((isBlock /\ ~isCommand) \/ lastFold.isCommand)

(* Variant: a fold indented deeper than the line stays open. *)
foldShouldPopSameColumn(lastFold, spaces, isBlock, isCommand) ==
    \/ spaces = 0
    \/ /\ lastFold.spacing = spaces
       /\ ((isBlock /\ ~isCommand) \/ lastFold.isCommand)

foldShouldPop(lastFold, spaces, isBlock, isCommand) ==
    \/ lastFold.spacing > spaces
    \/ spaces = 0
    \/ /\ lastFold.spacing = spaces
       /\ ((isBlock /\ ~isCommand) \/ lastFold.isCommand)

(* Variant: at most one fold is popped per line. *)
foldPopOnce(stack, out, i, spaces, isBlock, isCommand) ==
    IF Len(stack) > 0 /\ foldShouldPop(stack[Len(stack)], spaces, isBlock, isCommand)
    THEN [ stack |-> SubSeq(stack, 1, Len(stack) - 1),
           out |-> Append(out, FoldingRange(stack[Len(stack)].start, i - 1)) ]
    ELSE [ stack |-> stack, out |-> out ]

(* The while loop: pop from the top of the stack while foldShouldPop.     *)
RECURSIVE foldPopAll(_, _, _, _, _, _)
foldPopAll(stack, out, i, spaces, isBlock, isCommand) ==
    IF Len(stack) > 0 /\ foldShouldPop(stack[Len(stack)], spaces, isBlock, isCommand)
    THEN foldPopAll(SubSeq(stack, 1, Len(stack) - 1),
                    Append(out, FoldingRange(stack[Len(stack)].start, i - 1)),
                    i, spaces, isBlock, isCommand)
    ELSE [ stack |-> stack, out |-> out ]

MaxFoldLines == 4

FoldLines ==
    { "on signal:", "- if <x>:", "  - narrate hi", "- else:", "  - narrate bye",
      "", "  events:", "  - while <y>: ", "    - if <z>:" }

FoldExample ==
    << "on signal:", "- if <x>:", "  - narrate hi", "- else:", "  - narrate bye" >>

(* The example with every line indented by four columns, and both with a   *)
(* final empty line (a text that ends with a line break).                  *)
FoldExampleIndented == [ k \in 1..Len(FoldExample) |-> "    " \o FoldExample[k] ]

FoldExamples ==
    { FoldExample, FoldExampleIndented, Append(FoldExample, ""), Append(FoldExampleIndented, "") }

FoldTexts ==
    FoldExamples \cup UNION { [ 1..n -> FoldLines ] : n \in 1..MaxFoldLines }

FoldInit ==
    /\ foldText \in FoldTexts
    /\ foldI = 0
    /\ processing = << >>
    /\ output = << >>
    /\ foldPc = "scan"

FoldLine ==
    /\ foldPc = "scan"
    /\ foldI < Len(foldText)
    /\ LET line == foldText[foldI + 1]
           spaces == foldSpaces(line)
           isBlock == foldIsBlock(line)
           isCommand == foldIsCommand(line)
           popped == foldPopAll(processing, output, foldI, spaces, isBlock, isCommand)
       IN  IF Len(trimStart(line)) = 0
           THEN UNCHANGED << processing, output >>
           ELSE /\ output' = popped.out
                /\ processing' = IF isBlock
                                 THEN Append(popped.stack, InProcFold(foldI, spaces, isCommand))
                                 ELSE popped.stack
    /\ foldI' = foldI + 1
    /\ UNCHANGED << foldText, foldPc >>

FoldFinish ==
    /\ foldPc = "scan"
    /\ foldI = Len(foldText)
    /\ output' = output \o [ k \in 1..Len(processing) |->
                               FoldingRange(processing[k].start, Len(foldText) - 1) ]
    /\ processing' = processing
    /\ foldPc' = "done"
    /\ UNCHANGED << foldText, foldI >>

----------------------------------------------------------------------------
(* The line classifier applied to one line.                                *)

VARIABLES
    lnLine,     \* the raw line
    lnData,     \* isData: the line lies in a data block
    lnInline,   \* doInlineColors
    lnOut,      \* the ranges decorateLine added
    lnPc        \* "idle", "ready" or "done"

lineVars == << lnLine, lnData, lnInline, lnOut, lnPc >>

----------------------------------------------------------------------------
(* The data block scan of decorateFullFile, one line of its loop per step. *)

VARIABLES
    scanText,               \* splitText of the document
    scanI,                  \* the loop index i
    definitelyDataSpacing

scanVars == << scanText, scanI, definitelyDataSpacing >>

MaxScanLines == 4

ScanLines ==
    { "lore:", "  lore:", "  name:", "type: data", "  type: data", "    type: data\r",
      "  - a", "    - b", "" }

ScanTexts == UNION { [ 1..n -> ScanLines ] : n \in 1..MaxScanLines }

ScanInit ==
    /\ scanText \in ScanTexts
    /\ scanI = 0
    /\ definitelyDataSpacing = -1

ScanLine ==
    /\ scanI < Len(scanText)
    /\ definitelyDataSpacing' = dataSpacingStep(scanText[scanI + 1], definitelyDataSpacing)
    /\ scanI' = scanI + 1
    /\ UNCHANGED scanText

ScanIdle ==
    /\ scanText = << >>
    /\ scanI = 0
    /\ definitelyDataSpacing = -1

----------------------------------------------------------------------------
(* The partial branch of decorateFullFile applied to a cache on its own.   *)

VARIABLES
    prCache,    \* the HighlightCache the pass finds
    prDecors,   \* keys of highlightDecors
    prOut,      \* the decorations object after the shift and splice loops
    prPc        \* "idle", "ready" or "done"

pruneVars == << prCache, prDecors, prOut, prPc >>

MaxPruneLine == 3

MaxPruneRanges == 2

MaxPruneShift == 1

PruneCategories == << "key", "command" >>

PruneRangeLists(c) ==
    UNION { [ 1..n -> { Dec(c, l, 0, 1) : l \in 0..MaxPruneLine } ] : n \in 0..MaxPruneRanges }

(* Caches with ranges and a recorded region; highlightDecors holds the    *)
(* categories of the cache and possibly an auto: key added since by a     *)
(* pass over another document.                                             *)
PruneInit ==
    /\ \E s \in 0..MaxPruneLine, sh \in (-MaxPruneShift)..MaxPruneShift,
          k \in PruneRangeLists("key"), c \in PruneRangeLists("command") :
          \E e \in s..MaxPruneLine :
              prCache = [ needRefreshStartLine |-> s, needRefreshEndLine |-> e,
                          needRefreshLineShift |-> sh,
                          lastDecorations |-> [ t \in SeqToSet(PruneCategories) |->
                                                  IF t = "key" THEN k ELSE c ] ]
    /\ prDecors \in { PruneCategories, Append(PruneCategories, "auto:#FF5555") }
    /\ prOut = << >>
    /\ prPc = "ready"

ShiftAndPruneCache ==
    /\ prPc = "ready"
    /\ LET shift == prCache.needRefreshLineShift
           endAdj == IF shift > 0 THEN prCache.needRefreshEndLine + shift
                     ELSE prCache.needRefreshEndLine
           startAdj == IF shift < 0 THEN prCache.needRefreshStartLine + shift
                       ELSE prCache.needRefreshStartLine
       IN  prOut' = startDecorations(prCache, prDecors, FALSE, startAdj, endAdj)
    /\ prPc' = "done"
    /\ UNCHANGED << prCache, prDecors >>

PruneIdle ==
    /\ prCache = HighlightCache
    /\ prDecors = << >>
    /\ prOut = << >>
    /\ prPc = "idle"

----------------------------------------------------------------------------
(* decorateArg on its own, one iteration of its loop per step. *)

VARIABLES
    argText,      \* arg
    argCanQuote,  \* canQuote
    argLabel,     \* contextualLabel
    argSt,        \* the locals of decorateArg
    argBoundary,  \* index after the last space met outside quotes and tags, 0 before any
    argPc         \* "idle", "scan" or "done"

argVars == << argText, argCanQuote, argLabel, argSt, argBoundary, argPc >>

ArgTexts ==
    { "a < b", "a < b <c>", "<a b>", "<x||y z> w", "<a.b[c d]> e", "\"a < b > c\" <d>",
      "'it <&c>is' <x>", "a <b c", "x>y <z", "<a><b", "a<b >c", "def.a:<y> z",
      "<a <b>> c", "a >= <b> c", "" }

ArgLabels == { "cmd:narrate", "cmd:if", "cmd:run", "key:display name" }

ArgInit ==
    /\ argText \in ArgTexts
    /\ argCanQuote \in BOOLEAN
    /\ argLabel \in ArgLabels
    /\ argSt = decorateArgInit(argText, argCanQuote)
    /\ argBoundary = 0
    /\ argPc = "scan"

(* One iteration of "for (let i = 0; i < len; i++)". *)
ArgStep ==
    /\ argPc = "scan"
    /\ argSt.i < Len(argText)
    /\ LET nx == decorateArgStep(argText, 0, 0, TokenEnv(loadAllColors(<< >>, {}), TRUE),
                                 argCanQuote, argLabel, argSt)
       IN  argSt' = [ nx EXCEPT !.i = nx.i + 1 ]
    /\ argBoundary' = IF /\ charAt(argText, argSt.i) = " "
                         /\ ~argSt.quoted /\ argSt.inTagCounter = 0
                      THEN argSt.i + 1 ELSE argBoundary
    /\ UNCHANGED << argText, argCanQuote, argLabel, argPc >>

(* The flush after the loop. *)
ArgFinish ==
    /\ argPc = "scan"
    /\ argSt.i >= Len(argText)
    /\ argSt' = [ argSt EXCEPT !.out =
                    IF argSt.lastDecor < Len(argText)
                    THEN Append(@, Dec(argSt.defaultDecor, 0, argSt.lastDecor, Len(argText)))
                    ELSE @ ]
    /\ argPc' = "done"
    /\ UNCHANGED << argText, argCanQuote, argLabel, argBoundary >>

ArgIdle ==
    /\ argText = ""
    /\ argCanQuote = FALSE
    /\ argLabel = ""
    /\ argSt = decorateArgInit("", FALSE)
    /\ argBoundary = 0
    /\ argPc = "idle"

----------------------------------------------------------------------------
(* WorkspaceTracker of the language server: Replace calls on their own     *)
(* threads and the UpdateWorkspaceData tasks they start.  The call with    *)
(* number c starts the task with number c.  The files of the workspace are *)
(* on disk and can be read.                                                *)

VARIABLES
    Checkers,             \* file -> ScriptChecker, NoChecker where the key is absent
    WorkspaceData,
    LastUpdate,
    EverLoadedWorkspace,
    UpdateLock,           \* the task inside lock (UpdateLock), 0 when it is free
    TrackFullWorkspace,   \* ClientConfiguration.TrackFullWorkspace and a workspace path
    replacePc,            \* call -> "idle", "added", "read" or "done"
    replaceIndex,         \* call -> the value "++LastUpdate" is about to store
    taskPc,               \* task -> "none", "queued", "check", "scan", "snapshot",
                          \*         "rescan", "merge", "write" or "done"
    updateCounter,        \* task -> its argument
    copyCheckers,         \* task -> the keys of copyCheckers
    taskData              \* task -> its genData, then its NewData

trackVars ==
    << Checkers, WorkspaceData, LastUpdate, EverLoadedWorkspace, UpdateLock, TrackFullWorkspace,
       replacePc, replaceIndex, taskPc, updateCounter, copyCheckers, taskData >>

MaxReplace == 3

Calls == 1..MaxReplace

TrackerFiles == { "a.dsc", "b.dsc" }

NoChecker == [ src |-> "none", n |-> 0, file |-> "" ]

(* The checker a Replace call hands over, the one the first scan makes of *)
(* a file nobody has registered, and the one it makes of a file again.     *)
ReplaceChecker(c, f) == [ src |-> "replace", n |-> c, file |-> f ]

DiskChecker(f) == [ src |-> "disk", n |-> 0, file |-> f ]

ScanChecker(f) == [ src |-> "scan", n |-> 0, file |-> f ]

NullData == [ isNull |-> TRUE, scripts |-> {} ]

(* new ScriptingWorkspaceData() with the GeneratedWorkspace of every       *)
(* checker of Checkers.ToArray() merged in.                                *)
MergeAll(checkers) ==
    [ isNull |-> FALSE,
      scripts |-> { checkers[f] : f \in { g \in DOMAIN checkers : checkers[g] # NoChecker } } ]

(* Variant: a task with the current counter is taken to be outdated too. *)
isOutdatedOrCurrent(counter, lastUpdate) == counter <= lastUpdate

(* "if (updateCounter < LastUpdate)" *)
isOutdated(counter, lastUpdate) == counter < lastUpdate

TrackInit ==
    /\ Checkers = [ f \in TrackerFiles |-> NoChecker ]
    /\ WorkspaceData = NullData
    /\ LastUpdate = 0
    /\ EverLoadedWorkspace = FALSE
    /\ UpdateLock = 0
    /\ TrackFullWorkspace \in BOOLEAN
    /\ replacePc = [ c \in Calls |-> "idle" ]
    /\ replaceIndex = [ c \in Calls |-> 0 ]
    /\ taskPc = [ c \in Calls |-> "none" ]
    /\ updateCounter = [ c \in Calls |-> 0 ]
    /\ copyCheckers = [ c \in Calls |-> {} ]
    /\ taskData = [ c \in Calls |-> NullData ]

(* Replace up to and including AddInternal. *)
ReplaceAdd(c) ==
    /\ replacePc[c] = "idle"
    /\ IF ~TrackFullWorkspace
       THEN /\ replacePc' = [ replacePc EXCEPT ![c] = "done" ]
            /\ UNCHANGED Checkers
       ELSE /\ \E f \in TrackerFiles : Checkers' = [ Checkers EXCEPT ![f] = ReplaceChecker(c, f) ]
            /\ replacePc' = [ replacePc EXCEPT ![c] = "added" ]
    /\ UNCHANGED << WorkspaceData, LastUpdate, EverLoadedWorkspace, UpdateLock, TrackFullWorkspace,
                    replaceIndex, taskPc, updateCounter, copyCheckers, taskData >>

(* "++LastUpdate" is a read and a write of a field no lock protects. *)
ReplaceRead(c) ==
    /\ replacePc[c] = "added"
    /\ replaceIndex' = [ replaceIndex EXCEPT ![c] = LastUpdate + 1 ]
    /\ replacePc' = [ replacePc EXCEPT ![c] = "read" ]
    /\ UNCHANGED << Checkers, WorkspaceData, LastUpdate, EverLoadedWorkspace, UpdateLock,
                    TrackFullWorkspace, taskPc, updateCounter, copyCheckers, taskData >>

(* The write of "++LastUpdate" and Task.Factory.StartNew. *)
ReplaceStart(c) ==
    /\ replacePc[c] = "read"
    /\ LastUpdate' = replaceIndex[c]
    /\ taskPc' = [ taskPc EXCEPT ![c] = "queued" ]
    /\ updateCounter' = [ updateCounter EXCEPT ![c] = replaceIndex[c] ]
    /\ replacePc' = [ replacePc EXCEPT ![c] = "done" ]
    /\ UNCHANGED << Checkers, WorkspaceData, EverLoadedWorkspace, UpdateLock, TrackFullWorkspace,
                    replaceIndex, copyCheckers, taskData >>

(* lock (UpdateLock) *)
TaskEnter(t) ==
    /\ taskPc[t] = "queued"
    /\ UpdateLock = 0
    /\ UpdateLock' = t
    /\ taskPc' = [ taskPc EXCEPT ![t] = "check" ]
    /\ UNCHANGED << Checkers, WorkspaceData, LastUpdate, EverLoadedWorkspace, TrackFullWorkspace,
                    replacePc, replaceIndex, updateCounter, copyCheckers, taskData >>

(* The two tests at the head of the body. *)
TaskCheck(t) ==
    /\ taskPc[t] = "check"
    /\ IF isOutdated(updateCounter[t], LastUpdate)
       THEN /\ taskPc' = [ taskPc EXCEPT ![t] = "done" ]
            /\ UpdateLock' = 0
            /\ UNCHANGED EverLoadedWorkspace
       ELSE /\ taskPc' = [ taskPc EXCEPT ![t] = IF EverLoadedWorkspace THEN "merge" ELSE "scan" ]
            /\ EverLoadedWorkspace' = TRUE
            /\ UNCHANGED UpdateLock
    /\ UNCHANGED << Checkers, WorkspaceData, LastUpdate, TrackFullWorkspace,
                    replacePc, replaceIndex, updateCounter, copyCheckers, taskData >>

(* The first loop of the first-time scan: a checker for every file nobody *)
(* has registered.                                                         *)
TaskScan(t) ==
    /\ taskPc[t] = "scan"
    /\ Checkers' = [ f \in TrackerFiles |->
                       IF Checkers[f] = NoChecker THEN DiskChecker(f) ELSE Checkers[f] ]
    /\ taskPc' = [ taskPc EXCEPT ![t] = "snapshot" ]
    /\ UNCHANGED << WorkspaceData, LastUpdate, EverLoadedWorkspace, UpdateLock, TrackFullWorkspace,
                    replacePc, replaceIndex, updateCounter, copyCheckers, taskData >>

(* copyCheckers = Checkers.ToArray() and genData. *)
TaskSnapshot(t) ==
    /\ taskPc[t] = "snapshot"
    /\ copyCheckers' = [ copyCheckers EXCEPT ![t] = { f \in TrackerFiles : Checkers[f] # NoChecker } ]
    /\ taskData' = [ taskData EXCEPT ![t] = MergeAll(Checkers) ]
    /\ taskPc' = [ taskPc EXCEPT ![t] = "rescan" ]
    /\ UNCHANGED << Checkers, WorkspaceData, LastUpdate, EverLoadedWorkspace, UpdateLock,
                    TrackFullWorkspace, replacePc, replaceIndex, updateCounter >>

(* The second loop: every file of the copy is checked again and           *)
(* registered over what is there; then "WorkspaceData = genData".          *)
TaskRescan(t) ==
    /\ taskPc[t] = "rescan"
    /\ Checkers' = [ f \in TrackerFiles |->
                       IF f \in copyCheckers[t] THEN ScanChecker(f) ELSE Checkers[f] ]
    /\ WorkspaceData' = taskData[t]
    /\ taskPc' = [ taskPc EXCEPT ![t] = "merge" ]
    /\ UNCHANGED << LastUpdate, EverLoadedWorkspace, UpdateLock, TrackFullWorkspace,
                    replacePc, replaceIndex, updateCounter, copyCheckers, taskData >>

(* NewData built from Checkers.ToArray(). *)
TaskMerge(t) ==
    /\ taskPc[t] = "merge"
    /\ taskData' = [ taskData EXCEPT ![t] = MergeAll(Checkers) ]
    /\ taskPc' = [ taskPc EXCEPT ![t] = "write" ]
    /\ UNCHANGED << Checkers, WorkspaceData, LastUpdate, EverLoadedWorkspace, UpdateLock,
                    TrackFullWorkspace, replacePc, replaceIndex, updateCounter, copyCheckers >>

(* "WorkspaceData = NewData" and the end of the lock. *)
TaskWrite(t) ==
    /\ taskPc[t] = "write"
    /\ WorkspaceData' = taskData[t]
    /\ UpdateLock' = 0
    /\ taskPc' = [ taskPc EXCEPT ![t] = "done" ]
    /\ UNCHANGED << Checkers, LastUpdate, EverLoadedWorkspace, TrackFullWorkspace,
                    replacePc, replaceIndex, updateCounter, copyCheckers, taskData >>

TrackIdle ==
    /\ Checkers = << >>
    /\ WorkspaceData = NullData
    /\ LastUpdate = 0
    /\ EverLoadedWorkspace = FALSE
    /\ UpdateLock = 0
    /\ TrackFullWorkspace = FALSE
    /\ replacePc = << >>
    /\ replaceIndex = << >>
    /\ taskPc = << >>
    /\ updateCounter = << >>
    /\ copyCheckers = << >>
    /\ taskData = << >>

vars == << editorVars, foldVars, lineVars, scanVars, pruneVars, argVars, trackVars >>

EditorIdle ==
    /\ docs = [ p \in {} |-> << >> ]
    /\ visible = << >>
    /\ HLCaches = NoCaches
    /\ highlightDecors = loadAllColors(<< >>, {})
    /\ doInlineColors = TRUE
    /\ refreshTimer = FALSE
    /\ timers = 0
    /\ changeCounter = 0
    /\ passLog = << >>

FoldIdle ==
    /\ foldText = << "" >>
    /\ foldI = 0
    /\ processing = << >>
    /\ output = << >>
    /\ foldPc = "idle"

LineIdle ==
    /\ lnLine = ""
    /\ lnData = FALSE
    /\ lnInline = TRUE
    /\ lnOut = << >>
    /\ lnPc = "idle"

LineIndents == { "", "    " }

LineTrails == { "", " ", "\r" }

LineBodies ==
    { "- narrate <a.b[<c>].d>",
      "- narrate \"a < b > c\"",
      "- narrate \"hi <player.name> x\" <red>",
      "- if \"a < b > c\" == <x> || ( a < b ):",
      "- if a < b:",
      "- <red>hello <bold>you",
      "- plain text",
      "- define a.b:->:c",
      "- define x 1",
      "- define a b:c",
      "- definemap m k:v e:f",
      "- flag server x:1 y",
      "- flag <player> a.b:++ expire:1d",
      "- foreach <x> as:v key:k.z:",
      "- run x def.a:<y> 'def.b:z'",
      "- narrate 'it <&c>is' <x||y z>",
      "- narrate <e.custom_color[base]>",
      "-narrate hi",
      "- \"bad name",
      "- stop",
      "on player breaks block in:area:",
      "lore:",
      "interact scripts:",
      "type: data",
      "definitions: a|b[x] c",
      "definitions: a",
      "display name: <&6>Gold <a.flag[b.c]>",
      "junk",
      "# TODO fix",
      "#- narrate x",
      "# plain comment",
      "# see: a:",
      "- k: v",
      "##### header",
      "" }

LineInputs == { ind \o b \o t : ind \in LineIndents, b \in LineBodies, t \in LineTrails }

LineInit ==
    /\ lnLine \in LineInputs
    /\ lnData \in BOOLEAN
    /\ lnInline \in BOOLEAN
    /\ lnOut = << >>
    /\ lnPc = "ready"

DecorateLine ==
    /\ lnPc = "ready"
    /\ lnOut' = decorateLine(lnLine, 0, TokenEnv(loadAllColors(<< >>, {}), lnInline), lnData)
    /\ lnPc' = "done"
    /\ UNCHANGED << lnLine, lnData, lnInline >>

----------------------------------------------------------------------------
(* Specifications. *)

Init == EditorInit /\ FoldIdle /\ LineIdle /\ ScanIdle /\ PruneIdle /\ ArgIdle /\ TrackIdle

Next ==
    /\ \/ OpenTextDocument(Files, StartTexts)
       \/ ChangeTextDocument(NewTexts, MaxLines, MaxChanges)
       \/ ChangeVisibleTextEditors
       \/ ChangeConfiguration
       \/ RefreshDecor
    /\ UNCHANGED << foldVars, lineVars, scanVars, pruneVars, argVars, trackVars >>

Spec == Init /\ [][Next]_vars

(* The session under the assumption that a timer that has been set fires: *)
(* setTimeout(refreshDecor, 50) runs its callback once the handlers before *)
(* it have returned.  The run of refreshDecor is the only step that takes  *)
(* a timer away, so the fairness condition is stated on that.              *)
LiveSpec == Spec /\ WF_timers(timers > 0 /\ timers' = timers - 1)

MultiNext ==
    /\ \/ OpenTextDocument(MultiFiles, MultiStartTexts)
       \/ ChangeTextDocument(MultiNewTexts, MultiMaxLines, MultiMaxChanges)
       \/ ChangeVisibleTextEditors
       \/ ChangeConfiguration
       \/ RefreshDecor
    /\ UNCHANGED << foldVars, lineVars, scanVars, pruneVars, argVars, trackVars >>

MultiSpec == Init /\ [][MultiNext]_vars

LongNext ==
    /\ \/ OpenTextDocument(Files, LongStartTexts)
       \/ ChangeTextDocument(LongNewTexts, LongMaxLines, LongMaxChanges)
       \/ ChangeVisibleTextEditors
       \/ ChangeConfiguration
       \/ RefreshDecor
    /\ UNCHANGED << foldVars, lineVars, scanVars, pruneVars, argVars, trackVars >>

LongSpec == Init /\ [][LongNext]_vars

FoldSpecInit == EditorIdle /\ FoldInit /\ LineIdle /\ ScanIdle /\ PruneIdle /\ ArgIdle /\ TrackIdle

FoldNext == (FoldLine \/ FoldFinish) /\ UNCHANGED << editorVars, lineVars, scanVars, pruneVars, argVars, trackVars >>

FoldSpec == FoldSpecInit /\ [][FoldNext]_vars

LineSpecInit == EditorIdle /\ FoldIdle /\ LineInit /\ ScanIdle /\ PruneIdle /\ ArgIdle /\ TrackIdle

LineNext == DecorateLine /\ UNCHANGED << editorVars, foldVars, scanVars, pruneVars, argVars, trackVars >>

LineSpec == LineSpecInit /\ [][LineNext]_vars

ScanSpecInit == EditorIdle /\ FoldIdle /\ LineIdle /\ ScanInit /\ PruneIdle /\ ArgIdle /\ TrackIdle

ScanNext == ScanLine /\ UNCHANGED << editorVars, foldVars, lineVars, pruneVars, argVars, trackVars >>

ScanSpec == ScanSpecInit /\ [][ScanNext]_vars

PruneSpecInit == EditorIdle /\ FoldIdle /\ LineIdle /\ ScanIdle /\ PruneInit /\ ArgIdle /\ TrackIdle

PruneNext == ShiftAndPruneCache /\ UNCHANGED << editorVars, foldVars, lineVars, scanVars, argVars, trackVars >>

PruneSpec == PruneSpecInit /\ [][PruneNext]_vars

ArgSpecInit == EditorIdle /\ FoldIdle /\ LineIdle /\ ScanIdle /\ PruneIdle /\ ArgInit /\ TrackIdle

ArgNext == (ArgStep \/ ArgFinish) /\ UNCHANGED << editorVars, foldVars, lineVars, scanVars, pruneVars, trackVars >>

ArgSpec == ArgSpecInit /\ [][ArgNext]_vars

TrackSpecInit == EditorIdle /\ FoldIdle /\ LineIdle /\ ScanIdle /\ PruneIdle /\ ArgIdle /\ TrackInit

TrackNext ==
    /\ \E c \in Calls :
          \/ ReplaceAdd(c)
          \/ ReplaceRead(c)
          \/ ReplaceStart(c)
          \/ TaskEnter(c)
          \/ TaskCheck(c)
          \/ TaskScan(c)
          \/ TaskSnapshot(c)
          \/ TaskRescan(c)
          \/ TaskMerge(c)
          \/ TaskWrite(c)
    /\ UNCHANGED << editorVars, foldVars, lineVars, scanVars, pruneVars, argVars >>

TrackSpec == TrackSpecInit /\ [][TrackNext]_vars

----------------------------------------------------------------------------
(* Properties of the highlight cache. *)

(* All ranges a decorations object holds, whatever their category.        *)
AllRanges(decorations) == UNION { SeqToSet(decorations[c]) : c \in DOMAIN decorations }

(* The ranges a from-scratch classification of the whole text adds.       *)
FullRanges(splitText) ==
    SeqToSet(classifyLines(splitText, 0, 0, Len(splitText), -1,
                           TokenEnv(highlightDecors, doInlineColors)))

PassesOf(path) == { k \in 1..Len(passLog) : passLog[k].path = path }

(* C1: when an incremental pass over a document with cached ranges has    *)
(* just completed, the ranges the cache holds are those of a from-scratch *)
(* classification of the document's current text.                          *)
C1_IncrementalEqualsFull ==
    \A k \in 1..Len(passLog) :
        (~passLog[k].full /\ passLog[k].ok)
            => AllRanges(HLCaches[passLog[k].path].lastDecorations) = FullRanges(docs[passLog[k].path])

(* C9: with a category that has no style in the configuration, every      *)
(* pass still runs to completion.                                          *)
C9_PassCompletesWithMissingStyle ==
    (\E k \in 1..Len(colorTypes) : ~InSeq(colorTypes[k], highlightDecors))
        => \A k \in 1..Len(passLog) : passLog[k].ok

(* C10: no pass of decorateFullFile raises an error, whatever the text    *)
(* and whatever cache state edits, refreshes and passes over other        *)
(* documents have left.                                                    *)
C10_NoPassRaises == \A k \in 1..Len(passLog) : passLog[k].ok

----------------------------------------------------------------------------
(* Properties of the line classifier. *)

(* The line as decorateLine reads it: without its trailing carriage return. *)
lnStripped ==
    IF endsWith(lnLine, "\r") THEN substring(lnLine, 0, Len(lnLine) - 1) ELSE lnLine

lnTrimmed == trim(lnStripped)

(* The ranges of lnOut that hold column col. *)
Covering(col) == { k \in 1..Len(lnOut) : lnOut[k].s <= col /\ col < lnOut[k].e }

NonEmptyTypes == { lnOut[k].type : k \in { j \in 1..Len(lnOut) : lnOut[j].s < lnOut[j].e } }

TagCategories == { "tag", "tag_dot", "tag_param", "tag_param_bracket" }

(* C2: the ranges added for a non-blank line tile [0, length of the line  *)
(* without its trailing carriage return): every column lies in exactly    *)
(* one range.                                                              *)
C2_SpansTileLine ==
    (lnPc = "done" /\ Len(lnTrimmed) > 0)
        => \A col \in 0..(Len(lnStripped) - 1) : Cardinality(Covering(col)) = 1

(* A "-" list line classified while data mode is open. *)
DataListLine == lnPc = "done" /\ lnData /\ startsWith(lnTrimmed, "-")

RECURSIVE QuoteRegionsFrom(_, _, _, _)
QuoteRegionsFrom(text, i, from, q) ==
    IF i >= Len(text)
    THEN IF from = -1 THEN << >> ELSE << [ from |-> from, to |-> Len(text), q |-> q ] >>
    ELSE LET c == charAt(text, i) IN
         IF from = -1 /\ (c = "\"" \/ c = "'") THEN QuoteRegionsFrom(text, i + 1, i, c)
         ELSE IF from # -1 /\ c = q
         THEN << [ from |-> from, to |-> i, q |-> q ] >> \o QuoteRegionsFrom(text, i + 1, -1, "x")
         ELSE QuoteRegionsFrom(text, i + 1, from, q)

QuoteRegions(text) == QuoteRegionsFrom(text, 0, -1, "x")

(* The word after the dash of a "- word args" line. *)
lnCommand ==
    LET afterDash == substringFrom(lnTrimmed, 2)
        sp == indexOf(afterDash, " ", 0)
    IN  IF sp = -1 THEN afterDash ELSE substring(afterDash, 0, sp)

(* A script command line whose arguments may be quoted. *)
QuotableCommandLine ==
    /\ lnPc = "done" /\ ~lnData
    /\ startsWith(lnTrimmed, "- ")
    /\ ~includes(lnCommand, "\"") /\ ~includes(lnCommand, "'") /\ ~includes(lnCommand, "[")
    /\ includes(substringFrom(lnTrimmed, 2), " ")

(* The non-empty ranges of lnOut that reach into columns from .. to - 1. *)
Overlapping(from, to) ==
    { k \in 1..Len(lnOut) : lnOut[k].s < lnOut[k].e /\ lnOut[k].s < to /\ from < lnOut[k].e }

HasTagStart(text) ==
    \E k \in 0..(Len(text) - 2) :
        charAt(text, k) = "<" /\ includes(TAG_ALLOWED, charAt(text, k + 1))

NestedTagAt == indexOf(lnStripped, "<a.b[<c>].d>", 0)

HasRange(type, s, e) == \E k \in 1..Len(lnOut) : lnOut[k] = Dec(type, 0, s, e)

(* C7: for <a.b[<c>].d> starting at column p, each top-level "." has its  *)
(* own tag_dot range, the brackets have their own ranges, the nested tag  *)
(* <c> has a range for its opening and content and one for its closing    *)
(* delimiter, every range that reaches into the columns of <c> lies       *)
(* between the two brackets, and the tag as a whole is tiled by ten       *)
(* ranges.                                                                 *)
C7_NestedTagSpans ==
    (lnPc = "done" /\ NestedTagAt # -1) =>
        LET p == NestedTagAt IN
        /\ HasRange("tag_dot", p + 2, p + 3)
        /\ HasRange("tag_dot", p + 9, p + 10)
        /\ HasRange("tag_param_bracket", p + 4, p + 5)
        /\ HasRange("tag_param_bracket", p + 8, p + 9)
        /\ HasRange("tag", p + 5, p + 7)
        /\ HasRange("tag", p + 7, p + 8)
        /\ \A k \in Overlapping(p + 5, p + 8) : p + 5 <= lnOut[k].s /\ lnOut[k].e <= p + 8
        /\ \A col \in (p + 5)..(p + 7) : Cardinality(Covering(col)) = 1
        /\ { lnOut[k] : k \in Overlapping(p, p + 12) } =
              { Dec("tag", 0, p, p + 2), Dec("tag_dot", 0, p + 2, p + 3),
                Dec("tag", 0, p + 3, p + 4), Dec("tag_param_bracket", 0, p + 4, p + 5),
                Dec("tag", 0, p + 5, p + 7), Dec("tag", 0, p + 7, p + 8),
                Dec("tag_param_bracket", 0, p + 8, p + 9), Dec("tag_dot", 0, p + 9, p + 10),
                Dec("tag", 0, p + 10, p + 11), Dec("tag", 0, p + 11, p + 12) }

C7_Witness ==
    /\ lnPc = "done" /\ ~lnData
    /\ NestedTagAt = 14
    /\ HasRange("tag", 19, 21)

----------------------------------------------------------------------------
(* Properties of the folding provider. *)

FoldRanges == SeqToSet(output)

(* C4 as stated: the example folds into (0,5), (1,2), (3,4), whether its  *)
(* lines start at column zero or are indented together, with or without a *)
(* final empty line.                                                       *)
C4_ExampleFoldsWholeBlock ==
    (foldPc = "done" /\ foldText \in FoldExamples)
        => FoldRanges = { FoldingRange(0, 5), FoldingRange(1, 2), FoldingRange(3, 4) }

(* C4: with its lines at column zero the example folds into (0,0), (1,2), *)
(* (3,4): the "- if" line at column zero closes the header's fold.  With  *)
(* all lines indented together the header folds the whole text, (0,4),    *)
(* and so does the last command block, (3,4).                              *)
C4_ExampleFolds ==
    foldPc = "done" =>
        /\ foldText = FoldExample
              => FoldRanges = { FoldingRange(0, 0), FoldingRange(1, 2), FoldingRange(3, 4) }
        /\ foldText = FoldExampleIndented
              => FoldRanges = { FoldingRange(0, 4), FoldingRange(1, 2), FoldingRange(3, 4) }
        /\ foldText = Append(FoldExample, "")
              => FoldRanges = { FoldingRange(0, 0), FoldingRange(1, 2), FoldingRange(3, 5) }
        /\ foldText = Append(FoldExampleIndented, "")
              => FoldRanges = { FoldingRange(0, 5), FoldingRange(1, 2), FoldingRange(3, 5) }

C4_Witness ==
    /\ foldPc = "done"
    /\ foldText = FoldExample
    /\ Len(output) = 3
    /\ output[1] = FoldingRange(0, 0)

(* A block header: a non-blank line whose trimmed text ends with ":". *)
IsBlockHeader(line) == Len(trim(line)) > 0 /\ endsWith(trim(line), ":")

RangesStartingAt(i) == { k \in 1..Len(output) : output[k].start = i }

(* C8: the provider returns exactly one range per block header line,      *)
(* starting at that line, and no range that starts anywhere else.          *)
C8_OneFoldPerBlockHeader ==
    foldPc = "done" =>
        /\ \A i \in 0..(Len(foldText) - 1) :
              Cardinality(RangesStartingAt(i)) = IF IsBlockHeader(foldText[i + 1]) THEN 1 ELSE 0
        /\ \A k \in 1..Len(output) : output[k].start \in 0..(Len(foldText) - 1)

C8_Witness ==
    /\ foldPc = "done"
    /\ Len(foldText) = 4
    /\ IsBlockHeader(foldText[1]) /\ ~IsBlockHeader(foldText[2])
    /\ foldText[4] = "  - while <y>: "
    /\ Len(output) >= 2

----------------------------------------------------------------------------
(* Properties of repeated passes. *)

RangesAt(decorations, c) == IF c \in DOMAIN decorations THEN decorations[c] ELSE << >>

SameRanges(d1, d2) ==
    \A c \in DOMAIN d1 \cup DOMAIN d2 : RangesAt(d1, c) = RangesAt(d2, c)

(* The decorations a from-scratch pass over the text builds. *)
FullDecorations(splitText) ==
    addDecorAll([ ok |-> TRUE, hd |-> highlightDecors,
                  decorations |-> [ c \in SeqToSet(highlightDecors) |-> << >> ] ],
                classifyLines(splitText, 0, 0, Len(splitText), -1,
                              TokenEnv(highlightDecors, doInlineColors)),
                1).decorations

(* The cache of the document holds the ranges of a full pass over its     *)
(* text and has no pending region.                                         *)
CleanCached(path) ==
    /\ path \in DOMAIN HLCaches
    /\ DOMAIN HLCaches[path].lastDecorations # {}
    /\ HLCaches[path].needRefreshStartLine = -1
    /\ HLCaches[path].needRefreshEndLine = -1
    /\ HLCaches[path].needRefreshLineShift = 0
    /\ SameRanges(HLCaches[path].lastDecorations, FullDecorations(docs[path]))

(* The run of refreshDecor that just ended passed over the document while *)
(* its cache was populated and had no pending region.                      *)
Repassed(path) ==
    \E k \in PassesOf(path) :
        passLog[k].ok /\ passLog[k].cached /\ passLog[k].before = << -1, -1, 0 >>

(* C3: a pass over a document whose cache is clean leaves, category by    *)
(* category, the ranges the cache already held.                            *)
C3_CleanRepassKeepsRanges ==
    [][ \A path \in DOMAIN docs :
          (CleanCached(path) /\ Repassed(path)' /\ docs'[path] = docs[path])
              => SameRanges(HLCaches'[path].lastDecorations, HLCaches[path].lastDecorations)
      ]_vars

C3_Witness ==
    \E path \in DOMAIN docs :
        /\ Repassed(path)
        /\ CleanCached(path)
        /\ AllRanges(HLCaches[path].lastDecorations) # {}

----------------------------------------------------------------------------
(* Properties of the dirty region. *)

(* The cache getCache would hand out for the document. *)
CacheOf(caches, path) == getCache(caches, path)[path]

(* A change event has just been handled: every handled change of a .dsc   *)
(* document counts.                                                        *)
ChangeHandled == changeCounter' = changeCounter + 1

(* C11: a change leaves the region of its document with a start line that *)
(* has not increased and an end line that has not decreased, and adds to  *)
(* the line shift the number of lines the document has gained.            *)
C11_ChangeWidensRegion ==
    [][ \A path \in DOMAIN docs :
          (ChangeHandled /\ docs'[path] # docs[path] /\ path \in DOMAIN HLCaches')
              => LET old == CacheOf(HLCaches, path)
                     new == HLCaches'[path]
                 IN  /\ new.needRefreshStartLine # -1
                     /\ old.needRefreshStartLine # -1
                           => new.needRefreshStartLine <= old.needRefreshStartLine
                     /\ new.needRefreshEndLine >= old.needRefreshEndLine
                     /\ new.needRefreshLineShift =
                           old.needRefreshLineShift + Len(docs'[path]) - Len(docs[path])
      ]_vars

IsClean(h) ==
    /\ h.needRefreshStartLine = -1
    /\ h.needRefreshEndLine = -1
    /\ h.needRefreshLineShift = 0

(* C12: after every pass of decorateFullFile over a document its region   *)
(* is clean and its cache holds a list of ranges for every category.      *)
C12_PassLeavesCleanCache ==
    \A k \in 1..Len(passLog) :
        LET path == passLog[k].path IN
        /\ path \in DOMAIN HLCaches
        /\ IsClean(HLCaches[path])
        /\ DOMAIN HLCaches[path].lastDecorations # {}

(* C13: a pass over a document whose cache holds no ranges is a full      *)
(* pass: it classifies every line and, when it completes, leaves the      *)
(* ranges of a from-scratch classification, whatever region had been      *)
(* recorded.                                                               *)
C13_EmptyCacheGivesFullPass ==
    \A k \in 1..Len(passLog) :
        ~passLog[k].cached =>
            /\ passLog[k].full
            /\ passLog[k].startLine = 0
            /\ passLog[k].endLine = Len(docs[passLog[k].path])
            /\ (passLog[k].ok /\ \A j \in PassesOf(passLog[k].path) : j <= k)
                  => SameRanges(HLCaches[passLog[k].path].lastDecorations,
                                FullDecorations(docs[passLog[k].path]))

C13_Witness ==
    \E k \in 1..Len(passLog) :
        /\ ~passLog[k].cached /\ passLog[k].ok
        /\ passLog[k].before[1] > 0
        /\ Len(docs[passLog[k].path]) > 1

(* The step is an event of another document than q: an edit of it, an    *)
(* open of it, or a run of refreshDecor that passes over others only.     *)
OtherDocumentEvent(q) ==
    \/ ChangeHandled /\ \E p \in DOMAIN docs \ {q} : docs'[p] # docs[p]
    \/ DOMAIN docs' # DOMAIN docs
    \/ passLog' # << >> /\ \A k \in 1..Len(passLog') : passLog'[k].path # q

(* C14: an edit of, an open of or a pass over one document leaves the     *)
(* region and the cached ranges of every other document as they were.    *)
C14_OtherCachesUntouched ==
    [][ \A q \in DOMAIN docs \cap DOMAIN HLCaches :
          (q \in DOMAIN docs' /\ docs'[q] = docs[q] /\ OtherDocumentEvent(q))
              => q \in DOMAIN HLCaches' /\ HLCaches'[q] = HLCaches[q]
      ]_vars

(* C16: with do_inline_colors off no range of an auto: category is added. *)
C16_NoAutoWhenInlineOff ==
    (lnPc = "done" /\ ~lnInline)
        => \A k \in 1..Len(lnOut) : ~startsWith(lnOut[k].type, "auto:")

(* The pass of the log entry started from a recorded region that reaches  *)
(* outside the document as it is now.                                      *)
RegionOutside(e) ==
    /\ e.cached
    /\ e.before[1] # -1
    /\ \/ e.before[2] >= Len(docs[e.path])
       \/ e.before[1] >= Len(docs[e.path])
       \/ e.before[1] + e.before[3] < 0
       \/ e.before[2] + e.before[3] >= Len(docs[e.path])

(* The line numbers the pass handed to decorateLine. *)
LinesHanded(e) == { i \in 0..(e.endLine - 1) : i >= e.startLine }

(* C15: a pass that starts from a region reaching outside the document    *)
(* hands only lines of the document to decorateLine and completes.         *)
C15_OutsideRegionIsClamped ==
    \A k \in 1..Len(passLog) :
        RegionOutside(passLog[k])
            => /\ \A i \in LinesHanded(passLog[k]) : i >= 0 /\ i < Len(docs[passLog[k].path])
               /\ passLog[k].ok

(* The step is the handling of an event that calls scheduleRefresh. *)
RefreshRequested ==
    \/ ChangeHandled
    \/ DOMAIN docs' # DOMAIN docs
    \/ visible' # visible
    \/ highlightDecors' # highlightDecors /\ passLog' = << >>

(* The step is a run of refreshDecor. *)
TimerFired == timers' = timers - 1

(* A visible document whose cache has a recorded region or no ranges. *)
Unhandled(path) ==
    /\ InSeq(path, visible)
    /\ path \in DOMAIN HLCaches
    /\ ~IsClean(HLCaches[path]) \/ DOMAIN HLCaches[path].lastDecorations = {}

(* C17: at most one timer is pending, an event handled while one is       *)
(* pending sets no further timer, and when the timer has fired no visible *)
(* document is left with a recorded region.                                *)
C17_OneTimerHandlesAllEdits ==
    /\ [](timers <= 1)
    /\ [][ /\ (RefreshRequested /\ timers = 1) => timers' = 1
           /\ TimerFired => \A path \in DOMAIN docs : ~Unhandled(path)'
       ]_vars

(* The timer part of C17 alone. *)
C17_OneTimer ==
    /\ [](timers <= 1)
    /\ [][ (RefreshRequested /\ timers = 1) => timers' = 1 ]_vars

----------------------------------------------------------------------------
(* The pop rule of the folding provider. *)

(* The line the step of the folding loop looks at. *)
foldLineNow == foldText[foldI + 1]

(* The condition under which an open fold is closed by the line. *)
ClosedBy(fold, line) ==
    LET indent == Len(line) - Len(trimStart(line))
        block == endsWith(trim(line), ":")
        command == startsWith(trim(line), "-")
    IN  \/ fold.spacing > indent
        \/ indent = 0
        \/ fold.spacing = indent /\ ((block /\ ~command) \/ fold.isCommand)

(* n folds are popped: the n folds on top are closed by the line and the  *)
(* one below them, if any, is not.                                         *)
PopsExactly(n, line) ==
    /\ \A j \in (Len(processing) - n + 1)..Len(processing) : ClosedBy(processing[j], line)
    /\ n < Len(processing) => ~ClosedBy(processing[Len(processing) - n], line)

(* C18: at a non-blank line the folds on top of the stack are popped      *)
(* exactly while the line closes them, top first, each giving the range   *)
(* from its start to the line before; the folds below stay.                *)
C18_PopsWhileClosed ==
    [][ (foldPc = "scan" /\ foldI' = foldI + 1 /\ Len(trimStart(foldLineNow)) > 0)
          => \E n \in 0..Len(processing) :
                /\ PopsExactly(n, foldLineNow)
                /\ output' = output \o
                      [ k \in 1..n |->
                          FoldingRange(processing[Len(processing) - k + 1].start, foldI - 1) ]
                /\ SubSeq(processing', 1, Len(processing) - n)
                      = SubSeq(processing, 1, Len(processing) - n)
                /\ Len(processing') - (Len(processing) - n) \in { 0, 1 }
      ]_vars

(* Two folds have been popped by one line while a third stayed open. *)
C18_Witness ==
    /\ foldPc = "scan"
    /\ foldI = 4
    /\ Len(output) = 2
    /\ output[1].end = 2 /\ output[2].end = 2
    /\ output[1].start > output[2].start
    /\ Len(processing) >= 1
    /\ processing[1].start = 0

----------------------------------------------------------------------------
(* Properties of the data block scan. *)

(* The line the step of the scan looks at, its indentation, and whether   *)
(* a data block is open before and after the step.                         *)
scanLineNow == scanText[scanI + 1]

scanIndent == Len(scanLineNow) - Len(trimStart(scanLineNow))

scanBlank == trim(scanLineNow) = ""

DataOpen == definitelyDataSpacing # -1

ScanStep == scanI' = scanI + 1

(* C19 in full: with a data block open, a non-blank line indented no      *)
(* deeper than the anchor closes it, and a blank line or a deeper line     *)
(* leaves it open.                                                          *)
C19_ClosesAtAnchorOnly ==
    [][ (ScanStep /\ DataOpen)
          => /\ (~scanBlank /\ scanIndent <= definitelyDataSpacing) => ~DataOpen'
             /\ (scanBlank \/ scanIndent > definitelyDataSpacing) => DataOpen'
      ]_vars

(* C19, blank lines: with a data block open, a blank line leaves it open. *)
C19_BlankLineKeepsBlock ==
    [][ (ScanStep /\ DataOpen /\ scanBlank) => DataOpen' ]_vars

(* The line is "type: data" and no block is open or the anchor of the     *)
(* open one is at or deeper than the line.                                 *)
TypeDataMet ==
    /\ trim(scanLineNow) = "type: data"
    /\ ~DataOpen \/ definitelyDataSpacing >= scanIndent

(* C20 as stated: after such a line a data block is open, anchored one    *)
(* column shallower than the line, at any indentation.                     *)
C20_TypeDataOpensBlock ==
    [][ (ScanStep /\ TypeDataMet)
          => DataOpen' /\ definitelyDataSpacing' = scanIndent - 1
      ]_vars

(* C20: after such a line indented by at least one column a data block is *)
(* open, anchored one column shallower than the line; after such a line   *)
(* at column zero no data block is open.                                   *)
C20_IndentedTypeDataOpensBlock ==
    [][ (ScanStep /\ TypeDataMet)
          => /\ scanIndent > 0 => DataOpen' /\ definitelyDataSpacing' = scanIndent - 1
             /\ scanIndent = 0 => ~DataOpen'
      ]_vars

(* A "type: data" line has re-anchored a block that was open deeper. *)
C20_Witness ==
    /\ scanI = 2
    /\ scanText[1] = "    type: data\r"
    /\ scanText[2] = "  type: data"
    /\ definitelyDataSpacing = 1

----------------------------------------------------------------------------
(* Properties of the rule order of decorateLine. *)

(* The first rule, in the order of decorateLine, the trimmed line matches. *)
lnRule ==
    IF startsWith(lnTrimmed, "#") THEN "comment"
    ELSE IF startsWith(lnTrimmed, "-") THEN "command"
    ELSE IF endsWith(lnTrimmed, ":") THEN "header"
    ELSE IF includes(lnTrimmed, ": ") THEN "inline"
    ELSE "malformed"

lnPreSpaces == Len(trimEnd(lnStripped)) - Len(lnTrimmed)

(* The ranges of the line after the one for its trailing white space. *)
lnBody ==
    IF Len(trimEnd(lnStripped)) # Len(lnStripped) THEN Tail(lnOut) ELSE lnOut

lnBodyTypes == { lnBody[k].type : k \in 1..Len(lnBody) }

CommentTypes == { "comment_header", "comment_normal", "comment_todo", "comment_code" }

(* The categories only one rule adds. *)
RuleTypes(rule) ==
    CASE rule = "comment" -> CommentTypes
      [] rule = "command" -> { "command" }
      [] rule = "header" -> { "key", "event_line" }
      [] rule = "inline" -> { "key_inline" }
      [] OTHER -> { }

Rules == { "comment", "command", "header", "inline", "malformed" }

(* The handling of the rule has run: how its ranges begin. *)
RuleRan(rule) ==
    /\ Len(lnBody) > 0
    /\ CASE rule = "comment" -> lnBody[1].type \in CommentTypes /\ lnBody[1].s = 0
         [] rule = "command" -> lnBody[1] = Dec("normal", 0, lnPreSpaces, lnPreSpaces + 1)
         [] rule = "header" ->
                /\ lnBody[1].type \in { "key", "event_line", "event_switch" }
                /\ lnBody[1].s = lnPreSpaces
                /\ lnBody[Len(lnBody)] = Dec("colons", 0, Len(trimEnd(lnStripped)) - 1,
                                             Len(trimEnd(lnStripped)))
         [] rule = "inline" -> lnBody[1].type = "key_inline" /\ lnBody[1].s = lnPreSpaces
         [] OTHER -> lnBody = << Dec("bad_space", 0, lnPreSpaces, Len(lnStripped)) >>

(* C21: a non-blank line is handled by the first rule it matches, in the  *)
(* order comment, command, block header, inline key, malformed, and by no *)
(* other rule; a line that matches none gets one bad_space range from its *)
(* first non-blank column to its end.                                      *)
C21_FirstMatchingRuleOnly ==
    (lnPc = "done" /\ Len(lnTrimmed) > 0)
        => /\ RuleRan(lnRule)
           /\ \A rule \in Rules \ { lnRule } :
                 ~RuleRan(rule) /\ lnBodyTypes \cap RuleTypes(rule) = {}

(* A script line that starts with "-" and ends with ":" has been handled  *)
(* as a command.                                                           *)
C21_Witness ==
    /\ lnPc = "done" /\ ~lnData
    /\ lnLine = "    - if a < b: "
    /\ RuleRan("command")
    /\ "command" \in lnBodyTypes

----------------------------------------------------------------------------
(* Properties of the definition-name split of decorateArg. *)

(* The space separated tokens of the trimmed line: "-", the command name, *)
(* then its arguments.                                                     *)
lnTokens == split(lnTrimmed, " ")

RECURSIVE lnTokenCol(_)
lnTokenCol(j) ==
    IF j = 1 THEN lnPreSpaces ELSE lnTokenCol(j - 1) + Len(lnTokens[j - 1]) + 1

(* The token has a def_name or data_actions range inside its columns. *)
TokenIsSplit(j) ==
    \E k \in 1..Len(lnOut) :
        /\ lnOut[k].type \in { "def_name", "data_actions" }
        /\ lnOut[k].s >= lnTokenCol(j)
        /\ lnOut[k].e <= lnTokenCol(j) + Len(lnTokens[j])

(* A script line of the command, with plain arguments (no tag, no quote). *)
PlainCommandLine(names) ==
    /\ lnPc = "done" /\ ~lnData
    /\ startsWith(lnTrimmed, "- ")
    /\ lnCommand \in names
    /\ ~includes(lnTrimmed, "\"") /\ ~includes(lnTrimmed, "'")

LaterTokens == { j \in 4..Len(lnTokens) : ~includes(lnTokens[j], "<") }

----------------------------------------------------------------------------
(* Properties of the shift and splice loops. *)

prShift == prCache.needRefreshLineShift

(* The line from which cached ranges are translated: the recorded end     *)
(* line for a positive shift, the recorded start line for a negative one. *)
prBoundary ==
    IF prShift > 0 THEN prCache.needRefreshEndLine ELSE prCache.needRefreshStartLine

(* The region after it has been grown by the shift. *)
prStartLine ==
    IF prShift < 0 THEN prCache.needRefreshStartLine + prShift ELSE prCache.needRefreshStartLine

prEndLine ==
    IF prShift > 0 THEN prCache.needRefreshEndLine + prShift ELSE prCache.needRefreshEndLine

(* The line a cached range is at after the translation. *)
Translated(r) == IF r.line >= prBoundary THEN r.line + prShift ELSE r.line

Survives(r) == Translated(r) < prStartLine \/ Translated(r) > prEndLine

(* The positions of the cached list whose ranges survive. *)
Survivors(c) ==
    { k \in 1..Len(prCache.lastDecorations[c]) : Survives(prCache.lastDecorations[c][k]) }

(* C23: the list of every category holds, in the cached order, exactly    *)
(* the cached ranges whose translated line lies outside the grown region, *)
(* each at its translated line and otherwise unchanged.                    *)
C23_ShiftThenPrune ==
    prPc = "done" =>
        \A c \in DOMAIN prCache.lastDecorations :
            LET old == prCache.lastDecorations[c]
                new == prOut.decorations[c]
            IN  /\ Len(new) = Cardinality(Survivors(c))
                /\ \A k \in Survivors(c) :
                      new[Cardinality({ j \in Survivors(c) : j <= k })]
                          = [ old[k] EXCEPT !.line = Translated(old[k]) ]

(* Lines were removed above two cached ranges: one moved up into the      *)
(* grown region and was discarded, the other moved up and survived.        *)
C23_Witness ==
    /\ prPc = "done"
    /\ prCache.needRefreshStartLine = 1 /\ prCache.needRefreshEndLine = 1
    /\ prShift = -1
    /\ prCache.lastDecorations["key"] = << Dec("key", 2, 0, 1), Dec("key", 3, 0, 1) >>
    /\ prOut.decorations["key"] = << Dec("key", 2, 0, 1) >>

----------------------------------------------------------------------------
(* Properties of the tag lookahead of decorateArg. *)

(* Whether a '>' comes before the next space that is outside quotes and   *)
(* brackets, a "||" met on the way lifting the limit.                      *)
RECURSIVE TagEndBeforeSpace(_, _, _, _, _, _, _)
TagEndBeforeSpace(s, i, quotes, quoted, quoteMode, params, hasFallback) ==
    IF i >= Len(s) THEN FALSE
    ELSE LET c == charAt(s, i) IN
        IF quotes /\ (c = "\"" \/ c = "'") THEN
            TagEndBeforeSpace(s, i + 1, quotes,
                              IF quoted THEN c # quoteMode ELSE TRUE,
                              IF quoted THEN quoteMode ELSE c, params, hasFallback)
        ELSE IF c = "[" THEN TagEndBeforeSpace(s, i + 1, quotes, quoted, quoteMode, params + 1, hasFallback)
        ELSE IF c = "]" /\ params > 0 THEN TagEndBeforeSpace(s, i + 1, quotes, quoted, quoteMode, params - 1, hasFallback)
        ELSE IF c = ">" THEN TRUE
        ELSE IF c = " " /\ ~quoted /\ params = 0 /\ ~hasFallback THEN FALSE
        ELSE TagEndBeforeSpace(s, i + 1, quotes, quoted, quoteMode, params,
                               hasFallback \/ (c = "|" /\ i > 0 /\ charAt(s, i - 1) = "|"))

(* The lookahead taken at the last space outside quotes and tags, or at   *)
(* the start of the argument.                                              *)
LookaheadAtBoundary ==
    TagEndBeforeSpace(substringFrom(argText, argBoundary), 0, argCanQuote, FALSE, "x", 0, FALSE)

(* The same where quoting is permitted; elsewhere one lookahead, taken at *)
(* the start, that asks for a '>' anywhere in the argument.                *)
LookaheadInForce ==
    IF argCanQuote THEN LookaheadAtBoundary
    ELSE includes(argText, ">")

argChar == charAt(argText, argSt.i)

TagOpens == argSt'.inTagCounter > argSt.inTagCounter

(* The iteration leaves the character in the running text: no range is    *)
(* added and no local but the index changes.                               *)
KeptAsText == argSt' = [ argSt EXCEPT !.i = argSt.i + 1 ]

(* When the lookahead "look" is true a '<' may open a tag; when it is     *)
(* false '<' and '>' stay text.                                            *)
LookaheadGates(look) ==
    (argPc = "scan" /\ argSt.i < Len(argText)) =>
        /\ TagOpens => (argChar = "<" /\ look)
        /\ (~look /\ argChar \in { "<", ">" }) => KeptAsText

C24_SpaceLimitedLookahead == [][LookaheadGates(LookaheadAtBoundary)]_vars

(* C24: where quoting is permitted a '<' opens a tag only when the        *)
(* lookahead taken at the last space outside quotes and tags (or at the   *)
(* start of the argument) found a '>' before the next space outside       *)
(* quotes and brackets, a "||" lifting that limit; elsewhere only when    *)
(* the argument holds a '>' at all. When that lookahead is false, '<'     *)
(* and '>' add no range and stay in the running text.                      *)
C24_LookaheadGatesTags == [][LookaheadGates(LookaheadInForce)]_vars

(* A comparison sign was kept as text, and after the next space a tag     *)
(* was opened.                                                             *)
C24_Witness ==
    /\ argPc = "scan"
    /\ argCanQuote
    /\ argText = "a < b <c>"
    /\ argBoundary = 6
    /\ argSt.inTagCounter = 1
    /\ \A k \in 1..Len(argSt.out) : argSt.out[k].type # "tag"

----------------------------------------------------------------------------
(* Properties of the lines a pass discards and the lines it classifies. *)

(* The lines of the document whose cached ranges the pass spliced out:    *)
(* all of them when it started from empty lists, else those of the region *)
(* grown by the line shift.                                                *)
LinesDiscarded(e) ==
    LET shift == e.before[3]
        startAdj == IF shift < 0 THEN e.before[1] + shift ELSE e.before[1]
        endAdj == IF shift > 0 THEN e.before[2] + shift ELSE e.before[2]
    IN  { i \in 0..(Len(docs[e.path]) - 1) : e.full \/ (i >= startAdj /\ i <= endAdj) }

(* No list of the cache holds the same range twice. *)
NoRangeTwice(h) ==
    \A c \in DOMAIN h.lastDecorations :
        \A j, k \in 1..Len(h.lastDecorations[c]) :
            h.lastDecorations[c][j] = h.lastDecorations[c][k] => j = k

(* C25: a completed pass has classified exactly the lines whose cached    *)
(* ranges it discarded, and the cache it leaves holds no range twice.      *)
C25_ClassifiedEqualsDiscarded ==
    \A k \in 1..Len(passLog) :
        passLog[k].ok
            => /\ LinesHanded(passLog[k]) = LinesDiscarded(passLog[k])
               /\ NoRangeTwice(HLCaches[passLog[k].path])

----------------------------------------------------------------------------
(* Properties of the shape of the folds. *)

FoldInside(a, b) == b.start <= a.start /\ a.end <= b.end

FoldApart(a, b) == a.end < b.start \/ b.end < a.start

(* C26: any two ranges of the output are apart or one lies inside the     *)
(* other, and the open folds are stacked by indentation: none is indented *)
(* less than the one below it.                                             *)
C26_FoldsAreNested ==
    /\ \A j, k \in 1..Len(output) :
          \/ FoldApart(output[j], output[k])
          \/ FoldInside(output[j], output[k])
          \/ FoldInside(output[k], output[j])
    /\ \A k \in 1..(Len(processing) - 1) : processing[k].spacing <= processing[k + 1].spacing

(* Three folds were open at once, each indented deeper than the one below, *)
(* and the finished output holds a fold inside another and two apart.      *)
C26_Witness ==
    /\ foldPc = "done"
    /\ Len(processing) = 3
    /\ processing[1].spacing < processing[2].spacing
    /\ processing[2].spacing < processing[3].spacing
    /\ \E j, k \in 1..Len(output) :
          j # k /\ FoldInside(output[j], output[k]) /\ output[j] # output[k]
    /\ \E j, k \in 1..Len(output) : FoldApart(output[j], output[k])

----------------------------------------------------------------------------
(* Properties of the session under the assumption that timers fire. *)

(* A visible document that an event has left without ranges or with a     *)
(* recorded region.                                                        *)
AwaitsPass(path) ==
    /\ InSeq(path, visible)
    /\ \/ path \notin DOMAIN HLCaches
       \/ ~IsClean(HLCaches[path])
       \/ DOMAIN HLCaches[path].lastDecorations = {}

(* The document has been passed over: its cache holds ranges and no region. *)
Passed(path) ==
    /\ path \in DOMAIN HLCaches
    /\ IsClean(HLCaches[path])
    /\ DOMAIN HLCaches[path].lastDecorations # {}

(* C27: a visible document that awaits a pass is passed over in the end,  *)
(* unless it is hidden before.                                             *)
C27_EditEventuallyPassed ==
    \A path \in Files : AwaitsPass(path) ~> (Passed(path) \/ ~InSeq(path, visible))

(* Every category the classifier emits has a style. *)
AllStyled == \A k \in 1..Len(colorTypes) : InSeq(colorTypes[k], highlightDecors)

(* The same for the sessions in which every category has a style. *)
C27_PassedWhenAllStyled ==
    \A path \in Files :
        (AllStyled /\ AwaitsPass(path)) ~> (Passed(path) \/ ~InSeq(path, visible))

----------------------------------------------------------------------------
(* Properties of WorkspaceTracker. *)

InBody(t) == taskPc[t] \in { "check", "scan", "snapshot", "rescan", "merge", "write" }

(* No call is under way and every task that was started has finished. *)
AllFinished ==
    /\ \A c \in Calls : replacePc[c] \in { "idle", "done" }
    /\ \A t \in Calls : taskPc[t] \in { "none", "done" }
    /\ \E t \in Calls : taskPc[t] = "done"

(* The step is task t leaving the tests at the head of the body. *)
Checked(t) == taskPc[t] = "check" /\ taskPc'[t] # "check"

====
